---- MODULE Spec2Model ----
(***************************************************************************)
(* A model of nanobot's MessageBus (src/nanobot/bus/queue.py): the inbound *)
(* and outbound asyncio queues, the direct-send path, the subscriber       *)
(* registry and the dispatch_outbound loop.                                *)
(*                                                                         *)
(* One action is one run of a coroutine between two suspension points of   *)
(* the asyncio event loop: tasks interleave only where the code awaits.    *)
(***************************************************************************)
EXTENDS Integers, Sequences, FiniteSets, TLC

(* ------------------------------ bounds -------------------------------- *)

\* Messages each inbound producer publishes.
MaxPub == 2
\* Outbound messages created (publish_outbound and send_direct together).
MaxOut == 2
\* subscribe_outbound calls.
MaxSubs == 2
\* DiscordChannel.send calls.
MaxSends == 2
\* MESSAGE_CREATE events received from the gateway.
MaxEvents == 2
\* Longest content given to _split_message, and largest max_len.
MaxStr == 4
MaxSplit == 2
\* CDPSession.get_or_create calls (each creates at most one session).
MaxCalls == 3
\* CDPSession._raw_send calls.
MaxCmds == 3
\* Longest message list given to maybe_compact.
MaxMsgs == 2

Producers == {"p1", "p2"}
Consumers == {"c1", "c2"}
Channels == {"A", "B"}
\* Task ids of dispatch_outbound calls; SingleLoop is the one-dispatcher setting.
Dispatchers == {"d1", "d2"}
SingleLoop == {"d1"}
\* What a subscriber callback or an adapter's send may do: return, or raise one
\* of these errors.
\* Discord channel ids (chat_id).
Chats == {"x", "y"}
\* Tasks that call CDPSession.get_or_create().
Callers == {"t1", "t2"}
\* Characters of a message content: a letter and the two kinds of whitespace
\* _split_message looks for.
Chars == {"a", " ", "\n"}
Errors == {"boom", "oops"}
Outcomes == {"ok"} \cup Errors

VARIABLES
    \* ---- program state ----
    inbound,        \* self.inbound: the queued InboundMessages, oldest first
    inGetters,      \* self.inbound._getters: consume_inbound calls waiting, in order
    cpc,            \* each consumer's position in consume_inbound
    outbound,       \* self.outbound: the queued OutboundMessages, oldest first
    subs,           \* self._outbound_subscribers: channel -> callbacks, in order
    channels,       \* self._channels: the channel names bound to an adapter
    running,        \* self._running
    pc,             \* each dispatch_outbound task's position
    cur,            \* msg of the dispatcher's current iteration
    idx,            \* position of the for loop in the subscriber list
    \* ---- observations (what callers, adapters and subscribers saw) ----
    pubCount,       \* messages each producer has published
    received,       \* what consume_inbound returned, per consumer, in order
    nextId,         \* outbound messages created so far
    enqLog,         \* every message put on the outbound queue, in put order
    pubResult,      \* message id -> the way publish_outbound ended for its caller
    consumedOut,    \* what consume_outbound returned, in order
    adapterCalls,   \* every adapter.send call: the message and what send did
    directResult,   \* message id -> the way send_direct ended for its caller
    fallback,       \* ids passed to send_direct while no adapter was bound
    directCalls,    \* every send_direct call: its message and the bindings in force
    lastReg,        \* the mapping given to the latest register_channels call
    delivered,      \* every callback invocation <<message, subscriber>>, in order
    dispatched,     \* the messages the dispatcher dequeued, in order
    fanDone,        \* id -> the channel's subscribers when its for loop finished
    errors,         \* <<message, subscriber>> pairs whose callback raised (logged)
    deqStopped,     \* per dispatcher: dequeues made while _running was False
    stoppedIdle,    \* the last stop() came while no dispatch_outbound() ran
    lateSubs,       \* <<message id, subscriber>>: registered during its fan-out,
                    \* for the messages whose fan-out is going on
    \* ---- DiscordChannel (src/nanobot/channels/discord.py) ----
    dRunning,       \* self._running
    http,           \* self._http is set
    typing,         \* self._typing_tasks: chat -> task (0: no entry)
    cancelledTasks, \* typing tasks on which cancel() was called
    nextTask,       \* typing tasks created so far
    sends,          \* each send() call: its position and what it has seen
    ev,             \* the MESSAGE_CREATE event handled last
    evPc,           \* position of _handle_message_create
    evCount,        \* MESSAGE_CREATE events received
    evHanded,       \* times the last event was handed to the bus
    evTyping,       \* typing task started for the last event (0: none)
    handed,         \* ids of the events handed to the bus, in order
    \* ---- DiscordChannel.start() and stop() ----
    startPc,        \* position of the start() call
    conn,           \* the connection of start()'s `async with`
    selfWs,         \* self._ws: "none", "cur" (that connection) or "stale"
    stopPc,         \* position of the stop() call
    stopSeen,       \* stop() has been called
    lateConnect,    \* websockets.connect was called after a stop()
    \* ---- _split_message ----
    splitInput,     \* the content argument
    splitMax,       \* the max_len argument
    content,        \* the local `content`: what is left to split
    chunks,         \* the local `chunks`
    splitPc,        \* position in _split_message
    \* ---- CDPSession (src/nanobot/agent/tools/cdp_browser.py) ----
    instance,       \* CDPSession._instance: a session (0: None)
    ws,             \* session -> its _ws: "none", "open", or "dead" (set, peer gone)
    nSessions,      \* CDPSession objects constructed
    nConnects,      \* websocket connections opened
    gpc,            \* position of the get_or_create call in progress
    goc,            \* what that call has seen so far
    gocCount,       \* get_or_create calls made
    lastCall,       \* how the last finished get_or_create call ended
    msgId,          \* self._msg_id
    pending,        \* self._pending: message id -> the _raw_send call waiting for it
    rawCalls,       \* every _raw_send call: its id, its state, the response it got
    listener,       \* the _listen task: "alive" or "dead"
    co,             \* concurrent get_or_create calls: caller -> what it has seen
    \* ---- maybe_compact (src/nanobot/agent/compaction.py) ----
    cmIn,           \* the messages argument
    cmWindow,       \* the context_window argument
    cmRatio,        \* the threshold_ratio argument, as <<numerator, denominator>>
    cmCounter,      \* how estimate_tokens counts: "litellm" or "fallback"
    cmPc,           \* position in maybe_compact
    cmOut,          \* the list it returned
    cmCompacted,    \* the flag it returned
    cmCalls         \* provider.chat calls made

inVars == <<inbound, inGetters, cpc, pubCount, received>>
outVars == <<outbound, nextId, enqLog, pubResult>>
directVars == <<channels, adapterCalls, directResult, fallback, consumedOut,
                directCalls, lastReg>>
loopVars == <<subs, running, pc, cur, idx, delivered, dispatched, fanDone,
              errors, deqStopped>>
discordVars == <<dRunning, http, typing, cancelledTasks, nextTask, sends, ev,
                 evPc, evCount, evHanded, evTyping, handed>>
splitVars == <<splitInput, splitMax, content, chunks, splitPc>>
\* The state of the channel adapters and tools, which no bus operation touches.
cdpVars == <<instance, ws, nSessions, nConnects, gpc, goc, gocCount, lastCall,
             msgId, pending, rawCalls, listener, co>>
compactVars == <<cmIn, cmWindow, cmRatio, cmCounter, cmPc, cmOut, cmCompacted,
                 cmCalls>>
toolVars == <<cdpVars, compactVars>>
gatewayVars == <<startPc, conn, selfWs, stopPc, stopSeen, lateConnect>>
sideVars == <<discordVars, gatewayVars, splitVars, toolVars>>
busVars == <<inVars, outVars, directVars, loopVars, stoppedIdle, lateSubs>>
vars == <<inVars, outVars, directVars, loopVars, stoppedIdle, lateSubs,
          sideVars>>

(* ------------------------------ helpers ------------------------------- *)

Range(s) == {s[i] : i \in 1..Len(s)}

Ids(s) == [i \in 1..Len(s) |-> s[i].id]

\* Number of positions of s that hold x.
Count(s, x) == Cardinality({i \in 1..Len(s) : s[i] = x})

NoMsg == [id |-> 0, channel |-> "-"]

(* --------------------------- asyncio.Queue ---------------------------- *)

\* Queue.put on an unbounded queue: the item goes to the tail.
QueuePutFront(q, m) == <<m>> \o q
QueuePutBounded(q, m) == IF Len(q) >= 1 THEN q ELSE Append(q, m)
QueuePut(q, m) == Append(q, m)

\* Queue.get once an item is there: the head is returned and removed.
QueuePopLast(q) == [item |-> q[Len(q)], rest |-> SubSeq(q, 1, Len(q) - 1)]
QueuePeek(q) == [item |-> Head(q), rest |-> q]
QueuePop(q) == [item |-> Head(q), rest |-> Tail(q)]

(* ------------------------------- Init --------------------------------- *)

InitBus ==
    /\ inbound = <<>>
    /\ inGetters = <<>>
    /\ cpc = [c \in Consumers |-> "idle"]
    /\ outbound = <<>>
    /\ subs = [ch \in Channels |-> <<>>]
    /\ channels = {}
    /\ running = FALSE
    /\ pc = [d \in Dispatchers |-> "idle"]
    /\ cur = [d \in Dispatchers |-> NoMsg]
    /\ idx = [d \in Dispatchers |-> 0]
    /\ pubCount = [p \in Producers |-> 0]
    /\ received = [c \in Consumers |-> <<>>]
    /\ nextId = 0
    /\ enqLog = <<>>
    /\ pubResult = <<>>
    /\ directCalls = <<>>
    /\ lastReg = {}
    /\ consumedOut = <<>>
    /\ adapterCalls = <<>>
    /\ directResult = <<>>
    /\ fallback = {}
    /\ delivered = <<>>
    /\ dispatched = <<>>
    /\ fanDone = <<>>
    /\ errors = {}
    /\ deqStopped = [d \in Dispatchers |-> 0]
    /\ stoppedIdle = FALSE
    /\ lateSubs = {}

\* A send() call that has not been made.
IdleSend == [pc |-> "idle", chat |-> "-", n |-> 0, i |-> 0, attempt |-> 0,
             posts |-> 0, before |-> "none", last |-> "none", ok |-> 0,
             entered |-> FALSE]

NoEvent == [id |-> 0, bot |-> FALSE, sender |-> "", channel |-> "", att |-> "none"]

\* DiscordChannel.__init__.
InitDiscord ==
    /\ dRunning = FALSE
    /\ http = FALSE
    /\ typing = [c \in Chats |-> 0]
    /\ cancelledTasks = {}
    /\ nextTask = 0
    /\ sends = [k \in 1..MaxSends |-> IdleSend]
    /\ ev = NoEvent
    /\ evPc = "idle"
    /\ evCount = 0
    /\ evHanded = 0
    /\ evTyping = 0
    /\ handed = <<>>

\* start() and stop() have not been called.
InitGateway ==
    /\ startPc = "idle"
    /\ conn = "none"
    /\ selfWs = "none"
    /\ stopPc = "idle"
    /\ stopSeen = FALSE
    /\ lateConnect = FALSE

\* _split_message has not been called.
InitSplitIdle ==
    /\ splitInput = <<>>
    /\ splitMax = 1
    /\ content = <<>>
    /\ chunks = <<>>
    /\ splitPc = "idle"

NoCall == [kind |-> "none", had |-> 0, pong |-> FALSE, closed |-> 0, ret |-> 0,
           inst |-> 0, opened |-> 0]

\* A concurrent get_or_create() call that has not been made.
NoCoCall == [pc |-> "idle", target |-> 0, sess |-> 0, ret |-> 0, failed |-> FALSE]

\* CDPSession: no singleton yet; one connected session for the commands.
InitCdp ==
    /\ instance = 0
    /\ ws = [k \in 1..MaxCalls |-> "none"]
    /\ nSessions = 0
    /\ nConnects = 0
    /\ gpc = "idle"
    /\ goc = NoCall
    /\ gocCount = 0
    /\ lastCall = NoCall
    /\ msgId = 0
    /\ pending = <<>>
    /\ rawCalls = <<>>
    /\ listener = "alive"
    /\ co = [c \in Callers |-> NoCoCall]

\* maybe_compact has not been called.
InitCompactIdle ==
    /\ cmIn = <<>>
    /\ cmWindow = 0
    /\ cmRatio = <<3, 5>>
    /\ cmCounter = "fallback"
    /\ cmPc = "idle"
    /\ cmOut = <<>>
    /\ cmCompacted = FALSE
    /\ cmCalls = 0

Init == InitBus /\ InitDiscord /\ InitGateway /\ InitSplitIdle /\ InitCdp /\ InitCompactIdle

(* ----------------------------- inbound -------------------------------- *)

\* publish_inbound(msg): inbound.put(msg) appends and wakes the first waiting getter.
PublishInbound(p) ==
    /\ pubCount[p] < MaxPub
    /\ LET msg == [src |-> p, n |-> pubCount[p] + 1] IN
       /\ inbound' = QueuePut(inbound, msg)
       /\ pubCount' = [pubCount EXCEPT ![p] = @ + 1]
    /\ IF inGetters # <<>>
         THEN /\ cpc' = [cpc EXCEPT ![Head(inGetters)] = "woken"]
              /\ inGetters' = Tail(inGetters)
         ELSE UNCHANGED <<cpc, inGetters>>
    /\ UNCHANGED <<received, outVars, directVars, loopVars, stoppedIdle, lateSubs, sideVars>>

\* The body of Queue.get from its `while self.empty()` test on: wait as the last
\* getter when the queue is empty, else return and remove the oldest item.
GetOrWait(c) ==
    IF inbound = <<>>
      THEN /\ inGetters' = Append(inGetters, c)
           /\ cpc' = [cpc EXCEPT ![c] = "waiting"]
           /\ UNCHANGED <<inbound, received>>
      ELSE /\ received' = [received EXCEPT ![c] = Append(@, QueuePop(inbound).item)]
           /\ inbound' = QueuePop(inbound).rest
           /\ cpc' = [cpc EXCEPT ![c] = "idle"]
           /\ UNCHANGED inGetters

\* consume_inbound() is called.
ConsumeInbound(c) ==
    /\ cpc[c] = "idle"
    /\ GetOrWait(c)
    /\ UNCHANGED <<pubCount, outVars, directVars, loopVars, stoppedIdle, lateSubs, sideVars>>

\* A getter that put() woke runs again: it re-tests the queue, which another
\* consume_inbound call may have emptied in between.
ConsumeInboundResume(c) ==
    /\ cpc[c] = "woken"
    /\ GetOrWait(c)
    /\ UNCHANGED <<pubCount, outVars, directVars, loopVars, stoppedIdle, lateSubs, sideVars>>

NextInbound ==
    \/ \E p \in Producers : PublishInbound(p)
    \/ \E c \in Consumers : ConsumeInbound(c)
    \/ \E c \in Consumers : ConsumeInboundResume(c)

SpecInbound == Init /\ [][NextInbound]_vars

(* ------------------- outbound queue and direct send ------------------- *)

\* The OutboundMessage a caller builds next: a fresh object for channel ch.
NewMsg(ch) == [id |-> nextId + 1, channel |-> ch]

\* register_channels(channels): the bindings are replaced by the given mapping.
RebindMerge(old, m) == old \cup m
Rebind(old, m) == m

RegisterChannels(m) ==
    /\ channels' = Rebind(channels, m)
    /\ lastReg' = m
    /\ UNCHANGED <<adapterCalls, directResult, fallback, consumedOut, directCalls>>
    /\ UNCHANGED <<inVars, stoppedIdle, lateSubs, sideVars, outVars, loopVars>>

\* publish_outbound(msg): outbound.put(msg).
PublishOutbound(ch) ==
    /\ nextId < MaxOut
    /\ nextId' = nextId + 1
    /\ outbound' = QueuePut(outbound, NewMsg(ch))
    /\ enqLog' = Append(enqLog, NewMsg(ch))
    /\ pubResult' = pubResult @@ (nextId + 1 :> "ok")
    /\ UNCHANGED <<inVars, stoppedIdle, lateSubs, sideVars, directVars, loopVars>>

\* send_direct, `channel = self._channels.get(msg.channel)` / `if channel:`.
HasAdapter(ch) == ch \in channels

\* send_direct: whether the message goes to the outbound queue, given whether an
\* adapter is bound and how its send ended.
SendDirectEnqueuesOnFailure(bound, outcome) == ~bound \/ outcome # "ok"
SendDirectEnqueues(bound, outcome) == ~bound

\* send_direct: how the call ends for its caller ("ok", or the error raised).
SendDirectSwallows(bound, outcome) == "ok"
SendDirectResult(bound, outcome) == IF bound THEN outcome ELSE "ok"

\* send_direct, `await channel.send(msg)`: the calls the adapter sees.
AdapterSendsRetry(msg, outcome) ==
    IF outcome = "ok" THEN <<[msg |-> msg, outcome |-> outcome]>>
                      ELSE <<[msg |-> msg, outcome |-> outcome],
                             [msg |-> msg, outcome |-> outcome]>>
AdapterSends(msg, outcome) == <<[msg |-> msg, outcome |-> outcome]>>

\* send_direct(msg), where the adapter's send (if one is bound) ends with outcome.
SendDirect(ch, outcome) ==
    /\ nextId < MaxOut
    /\ outcome = "ok" \/ HasAdapter(ch)
    /\ nextId' = nextId + 1
    /\ LET msg == NewMsg(ch)
           bound == HasAdapter(ch) IN
       /\ adapterCalls' = IF bound
                            THEN adapterCalls \o AdapterSends(msg, outcome)
                            ELSE adapterCalls
       /\ directCalls' = Append(directCalls, [msg |-> msg, reg |-> lastReg])
       /\ fallback' = IF bound THEN fallback ELSE fallback \cup {msg.id}
       /\ IF SendDirectEnqueues(bound, outcome)
            THEN /\ outbound' = QueuePut(outbound, msg)
                 /\ enqLog' = Append(enqLog, msg)
            ELSE UNCHANGED <<outbound, enqLog>>
       /\ directResult' = directResult @@ (msg.id :> SendDirectResult(bound, outcome))
    /\ UNCHANGED <<channels, consumedOut, lastReg, pubResult>>
    /\ UNCHANGED <<inVars, stoppedIdle, lateSubs, sideVars, loopVars>>

\* consume_outbound(): returns once a message is there, removing the oldest.
ConsumeOutbound ==
    /\ outbound # <<>>
    /\ consumedOut' = Append(consumedOut, QueuePop(outbound).item)
    /\ outbound' = QueuePop(outbound).rest
    /\ UNCHANGED <<nextId, enqLog, pubResult>>
    /\ UNCHANGED <<channels, adapterCalls, directResult, fallback, directCalls, lastReg>>
    /\ UNCHANGED <<inVars, stoppedIdle, lateSubs, sideVars, loopVars>>

\* outbound_size.
OutboundSize == Len(outbound)

\* inbound_size.
InboundSize == Len(inbound)

(* --------------------------- dispatcher loop -------------------------- *)

Active == {"waiting", "incallback"}

\* subscribe_outbound(channel, callback): the callback (named by the number of
\* its registration) is appended to the channel's list.
TotalSubs == Cardinality(UNION {Range(subs[ch]) : ch \in Channels})

SubscribeOutbound(ch) ==
    /\ TotalSubs < MaxSubs
    /\ subs' = [subs EXCEPT ![ch] = Append(@, TotalSubs + 1)]
    /\ lateSubs' = lateSubs \cup
           {<<cur[d].id, TotalSubs + 1>> :
               d \in {x \in Dispatchers : pc[x] = "incallback"
                                             /\ cur[x].channel = ch}}
    /\ UNCHANGED <<running, pc, cur, idx, delivered, dispatched, fanDone,
                   errors, deqStopped>>
    /\ UNCHANGED <<inVars, stoppedIdle, sideVars, outVars, directVars>>

NextDirect ==
    \/ \E m \in SUBSET Channels : RegisterChannels(m)
    \/ \E ch \in Channels : PublishOutbound(ch)
    \/ \E ch \in Channels, o \in Outcomes : SendDirect(ch, o)
    \/ ConsumeOutbound
    \/ \E ch \in Channels : SubscribeOutbound(ch)

SpecDirect == Init /\ [][NextDirect]_vars

\* `self._outbound_subscribers.get(msg.channel, [])`.
AllSubscribers == subs["A"] \o subs["B"]
SubscribersOfAny(ch) == AllSubscribers
\* A for loop over a copy of the list made when the message was dequeued:
\* callbacks registered during the fan-out are not in it.
RegisteredInFlight(s) ==
    \E d \in Dispatchers : pc[d] = "incallback" /\ <<cur[d].id, s>> \in lateSubs
NotInFlight(s) == ~RegisteredInFlight(s)
SubscribersAtDequeue(ch) == SelectSeq(subs[ch], NotInFlight)
SubscribersOf(ch) == subs[ch]

\* `while self._running:` decides between another bounded wait and returning.
LoopCheckIgnoresStop(r) == "waiting"
LoopCheck(r) == IF r THEN "waiting" ELSE "done"

\* The for loop after callback i of n ended with outcome: the position of the
\* next callback to invoke, 0 when the loop is over.  An Exception is caught
\* and logged, so the outcome does not matter.
NextCallbackAbortOnError(i, n, outcome) ==
    IF outcome # "ok" THEN 0 ELSE IF i < n THEN i + 1 ELSE 0
NextCallbackRetryOnError(i, n, outcome) ==
    IF outcome # "ok" THEN i ELSE IF i < n THEN i + 1 ELSE 0
NextCallback(i, n, outcome) == IF i < n THEN i + 1 ELSE 0

\* Where the task stands once the for loop over a message is over, the last
\* callback having ended with outcome: back at the `while` test.
AfterFanoutDieOnError(r, outcome) == IF outcome # "ok" THEN "done" ELSE LoopCheck(r)
AfterFanout(r, outcome) == LoopCheck(r)

\* Positions of a dispatch_outbound() call that is not running: never made,
\* returned, or ended by cancellation.
NotInLoop == {"idle", "done", "cancelled"}

\* A dispatch_outbound() that starts without setting the flag, so that a
\* stop() made before it is still in force.
StartKeepsFlag(d) ==
    /\ pc[d] \in NotInLoop
    /\ UNCHANGED running
    /\ pc' = [pc EXCEPT ![d] = LoopCheck(running)]
    /\ deqStopped' = [deqStopped EXCEPT ![d] = 0]
    /\ UNCHANGED <<subs, cur, idx, delivered, dispatched, fanDone, errors>>
    /\ UNCHANGED <<inVars, stoppedIdle, lateSubs, sideVars, outVars, directVars>>

\* dispatch_outbound() starts to run: `self._running = True`, the first `while`
\* test and the start of the first bounded wait.
Start(d) ==
    /\ pc[d] \in NotInLoop
    /\ running' = TRUE
    /\ pc' = [pc EXCEPT ![d] = LoopCheck(TRUE)]
    /\ deqStopped' = [deqStopped EXCEPT ![d] = 0]
    /\ UNCHANGED <<subs, cur, idx, delivered, dispatched, fanDone, errors>>
    /\ UNCHANGED <<inVars, stoppedIdle, lateSubs, sideVars, outVars, directVars>>

\* stop(), `self._running = False`: the flag after the call.
StopFlagToggles(r) == ~r
StopFlag(r) == FALSE

\* A stop() that also empties the outbound queue.
StopDrains ==
    /\ running' = FALSE
    /\ stoppedIdle' = (\A d \in Dispatchers : pc[d] \in NotInLoop)
    /\ outbound' = <<>>
    /\ UNCHANGED <<subs, pc, cur, idx, delivered, dispatched, fanDone, errors,
                   deqStopped>>
    /\ UNCHANGED <<nextId, enqLog, pubResult, inVars, lateSubs, sideVars, directVars>>

\* stop().
Stop ==
    /\ running' = StopFlag(running)
    /\ stoppedIdle' = (\A d \in Dispatchers : pc[d] \in NotInLoop)
    /\ UNCHANGED <<subs, pc, cur, idx, delivered, dispatched, fanDone, errors,
                   deqStopped>>
    /\ UNCHANGED <<inVars, lateSubs, sideVars, outVars, directVars>>

\* The registrations made during the fan-out of a message are on record
\* until that fan-out ends.
NotLateFor(msg) == {l \in lateSubs : l[1] # msg.id}

\* Lines 79-82 once `msg` is bound: the subscribers of its channel are looked
\* up and the first callback is invoked; with no subscriber the iteration is
\* over at once.
BeginFanout(d, msg) ==
    LET list == SubscribersOf(msg.channel) IN
    /\ dispatched' = Append(dispatched, msg)
    /\ deqStopped' = [deqStopped EXCEPT ![d] = IF running THEN @ ELSE @ + 1]
    /\ IF list = <<>>
         THEN /\ pc' = [pc EXCEPT ![d] = LoopCheck(running)]
              /\ fanDone' = fanDone @@ (msg.id :> Range(subs[msg.channel]))
              /\ cur' = [cur EXCEPT ![d] = NoMsg]
              /\ UNCHANGED <<idx, delivered>>
         ELSE /\ pc' = [pc EXCEPT ![d] = "incallback"]
              /\ cur' = [cur EXCEPT ![d] = msg]
              /\ idx' = [idx EXCEPT ![d] = 1]
              /\ delivered' = Append(delivered, <<msg, list[1]>>)
              /\ UNCHANGED fanDone

\* A loop that starts the callbacks without awaiting them, so that the next
\* message is taken while a callback still runs.
DequeueDuringCallback(d) ==
    /\ pc[d] \in {"waiting", "incallback"}
    /\ outbound # <<>>
    /\ outbound' = QueuePop(outbound).rest
    /\ BeginFanout(d, QueuePop(outbound).item)
    /\ UNCHANGED <<subs, running, errors>>
    /\ UNCHANGED <<nextId, enqLog, pubResult, inVars, stoppedIdle, lateSubs, sideVars, directVars>>

\* The bounded wait ends with a message: it is removed from the queue and its
\* fan-out begins.
Dequeue(d) ==
    /\ pc[d] = "waiting"
    /\ outbound # <<>>
    /\ outbound' = QueuePop(outbound).rest
    /\ BeginFanout(d, QueuePop(outbound).item)
    /\ UNCHANGED <<subs, running, errors>>
    /\ UNCHANGED <<nextId, enqLog, pubResult, inVars, stoppedIdle, lateSubs, sideVars, directVars>>

\* The bounded wait ends with asyncio.TimeoutError: `continue`, the `while` test.
Timeout(d) ==
    /\ pc[d] = "waiting"
    /\ outbound = <<>>
    /\ pc' = [pc EXCEPT ![d] = LoopCheck(running)]
    /\ UNCHANGED <<subs, running, cur, idx, delivered, dispatched, fanDone,
                   errors, deqStopped>>
    /\ UNCHANGED <<inVars, stoppedIdle, lateSubs, sideVars, outVars, directVars>>

\* `except Exception as e: logger.error(...)`: what the publishers of outbound
\* messages have been told (res) after a callback for msg ended with outcome.
ReportedToPublisher(res, msg, outcome) ==
    IF outcome = "ok" \/ msg.id \notin DOMAIN res THEN res
    ELSE [res EXCEPT ![msg.id] = outcome]
Reported(res, msg, outcome) == res

\* The callback in progress returns or raises an Exception (outcome); the for
\* loop goes on over the channel's list as it is now, invoking the next
\* callback, or is over.
Complete(d, outcome) ==
    /\ pc[d] = "incallback"
    /\ LET msg == cur[d]
           list == SubscribersOf(msg.channel)
           nxt == NextCallback(idx[d], Len(list), outcome) IN
       /\ errors' = IF outcome = "ok" THEN errors
                                      ELSE errors \cup {<<msg, list[idx[d]]>>}
       /\ pubResult' = Reported(pubResult, msg, outcome)
       /\ IF nxt # 0
            THEN /\ idx' = [idx EXCEPT ![d] = nxt]
                 /\ delivered' = Append(delivered, <<msg, list[nxt]>>)
                 /\ UNCHANGED <<pc, cur, fanDone, lateSubs>>
            ELSE /\ pc' = [pc EXCEPT ![d] = AfterFanout(running, outcome)]
                 /\ cur' = [cur EXCEPT ![d] = NoMsg]
                 /\ idx' = [idx EXCEPT ![d] = 0]
                 /\ fanDone' = fanDone @@ (msg.id :> Range(subs[msg.channel]))
                 /\ lateSubs' = NotLateFor(msg)
                 /\ UNCHANGED delivered
    /\ UNCHANGED <<subs, running, dispatched, deqStopped>>
    /\ UNCHANGED <<outbound, nextId, enqLog, inVars, stoppedIdle, sideVars, directVars>>

\* A cancellation that also clears _running (as a `finally` in the loop would).
CancelClearsRunning(d) ==
    /\ pc[d] \in Active
    /\ pc' = [pc EXCEPT ![d] = "cancelled"]
    /\ cur' = [cur EXCEPT ![d] = NoMsg]
    /\ idx' = [idx EXCEPT ![d] = 0]
    /\ running' = FALSE
    /\ UNCHANGED <<subs, delivered, dispatched, fanDone, errors, deqStopped>>
    /\ lateSubs' = NotLateFor(cur[d])
    /\ UNCHANGED <<inVars, stoppedIdle, sideVars, outVars, directVars>>

\* The owner cancels the task: CancelledError is raised at the await it is
\* suspended in (the bounded wait, or a callback) and, not being an Exception,
\* leaves dispatch_outbound.
Cancel(d) ==
    /\ pc[d] \in Active
    /\ pc' = [pc EXCEPT ![d] = "cancelled"]
    /\ cur' = [cur EXCEPT ![d] = NoMsg]
    /\ idx' = [idx EXCEPT ![d] = 0]
    /\ UNCHANGED <<subs, running, delivered, dispatched, fanDone, errors,
                   deqStopped>>
    /\ lateSubs' = NotLateFor(cur[d])
    /\ UNCHANGED <<inVars, stoppedIdle, sideVars, outVars, directVars>>

Loop(d) ==
    \/ Start(d)
    \/ Dequeue(d)
    \/ Timeout(d)
    \/ \E o \in Outcomes : Complete(d, o)
    \/ Cancel(d)

\* One dispatcher loop at a time, as the bus asks of its owner.
Next ==
    \/ \E ch \in Channels : PublishOutbound(ch)
    \/ \E ch \in Channels : SubscribeOutbound(ch)
    \/ Stop
    \/ \E d \in SingleLoop : Loop(d)

Spec == Init /\ [][Next]_vars

\* The event loop runs every task that is ready, the bounded wait ends after
\* its second, and subscriber callbacks end.
Fairness ==
    \A d \in SingleLoop :
        /\ WF_vars(Dequeue(d) \/ Timeout(d))
        /\ WF_vars(\E o \in Outcomes : Complete(d, o))

LiveSpec == Init /\ [][Next]_vars /\ Fairness

(* ------------------- two loops on the same bus ------------------------ *)

\* dispatch_outbound() run twice concurrently: both loops wait on the same
\* outbound queue and share _running.  Callbacks return here.
LoopDual(d) ==
    \/ Start(d)
    \/ Dequeue(d)
    \/ Timeout(d)
    \/ Complete(d, "ok")
    \/ Cancel(d)

NextDual ==
    \/ \E ch \in Channels : PublishOutbound(ch)
    \/ \E ch \in Channels : SubscribeOutbound(ch)
    \/ Stop
    \/ \E d \in Dispatchers : LoopDual(d)

SpecDual == Init /\ [][NextDual]_vars

(* ------------- the bounded wait, one event-loop step at a time -------- *)

\* asyncio.wait_for(self.outbound.get(), timeout=1.0) runs get() as a task of
\* its own.  "got": that task has taken the message off the queue and ended,
\* and dispatch_outbound has not run since; the message is the result held by
\* the task.

\* The inner get() task runs with a message on the queue.
WaitGets(d) ==
    /\ pc[d] = "waiting"
    /\ outbound # <<>>
    /\ outbound' = QueuePop(outbound).rest
    /\ cur' = [cur EXCEPT ![d] = QueuePop(outbound).item]
    /\ pc' = [pc EXCEPT ![d] = "got"]
    /\ UNCHANGED <<subs, running, idx, delivered, dispatched, fanDone, errors,
                   deqStopped>>
    /\ UNCHANGED <<nextId, enqLog, pubResult, inVars, stoppedIdle, lateSubs, sideVars, directVars>>

\* dispatch_outbound resumes with the result of the wait.
WaitReturns(d) ==
    /\ pc[d] = "got"
    /\ BeginFanout(d, cur[d])
    /\ UNCHANGED <<subs, running, errors>>
    /\ UNCHANGED <<inVars, stoppedIdle, lateSubs, sideVars, outVars, directVars>>

\* How wait_for ends when its timeout or a cancellation arrives: with the
\* result when the inner task is done (`if fut.done(): return fut.result()`),
\* else by raising after the inner task was cancelled.
WaitForEndsRaising(futDone) == "raise"
WaitForEnds(futDone) == IF futDone THEN "result" ELSE "raise"

\* The timeout fires, or the owner cancels the task, while the inner task
\* holds a message.
InterruptHeld(d, how) ==
    /\ pc[d] = "got"
    /\ IF WaitForEnds(TRUE) = "result"
         THEN BeginFanout(d, cur[d])
         ELSE /\ pc' = [pc EXCEPT ![d] = IF how = "cancel" THEN "cancelled"
                                                          ELSE LoopCheck(running)]
              /\ cur' = [cur EXCEPT ![d] = NoMsg]
              /\ UNCHANGED <<idx, delivered, dispatched, fanDone, deqStopped>>
    /\ UNCHANGED <<subs, running, errors>>
    /\ UNCHANGED <<inVars, stoppedIdle, lateSubs, sideVars, outVars, directVars>>

\* The timeout fires after put() woke the getter and before the inner task
\* ran: get() is cancelled at `await getter`, before get_nowait(), so the
\* message stays on the queue; `continue`.
TimeoutRace(d) ==
    /\ pc[d] = "waiting"
    /\ outbound # <<>>
    /\ WaitForEnds(FALSE) = "raise"
    /\ pc' = [pc EXCEPT ![d] = LoopCheck(running)]
    /\ UNCHANGED <<subs, running, cur, idx, delivered, dispatched, fanDone,
                   errors, deqStopped>>
    /\ UNCHANGED <<inVars, stoppedIdle, lateSubs, sideVars, outVars, directVars>>

LoopSteps(d) ==
    \/ Start(d)
    \/ WaitGets(d)
    \/ WaitReturns(d)
    \/ \E how \in {"timeout", "cancel"} : InterruptHeld(d, how)
    \/ Timeout(d)
    \/ TimeoutRace(d)
    \/ \E o \in Outcomes : Complete(d, o)
    \/ Cancel(d)

NextWait ==
    \/ \E ch \in Channels : PublishOutbound(ch)
    \/ \E ch \in Channels : SubscribeOutbound(ch)
    \/ Stop
    \/ \E d \in SingleLoop : LoopSteps(d)

SpecWait == Init /\ [][NextWait]_vars

(* ------------- stop() against both queues and the registries ---------- *)

\* The bus with one producer and one consumer of the inbound queue,
\* consume_outbound as the consumer of the outbound queue, and a dispatcher
\* task that is started and stopped while it waits.
NextStop ==
    \/ PublishInbound("p1")
    \/ ConsumeInbound("c1")
    \/ ConsumeInboundResume("c1")
    \/ \E ch \in Channels : PublishOutbound(ch)
    \/ ConsumeOutbound
    \/ \E m \in SUBSET Channels : RegisterChannels(m)
    \/ \E ch \in Channels : SubscribeOutbound(ch)
    \/ Stop
    \/ \E d \in SingleLoop : Start(d) \/ Timeout(d)

SpecStop == Init /\ [][NextStop]_vars

(* --------------------------- _split_message --------------------------- *)

MAX_MESSAGE_LENGTH == 2000

Max(S) == CHOOSE x \in S : \A y \in S : y <= x
Min(S) == CHOOSE x \in S : \A y \in S : x <= y

\* str.rfind(c): the highest 0-based index of c in s, -1 when there is none.
RFind(s, c) ==
    LET P == {k \in 1..Len(s) : s[k] = c} IN
    IF P = {} THEN -1 ELSE Max(P) - 1

\* str.lstrip(): s without its leading whitespace.
LStrip(s) ==
    LET N == {k \in 1..Len(s) : s[k] \notin {" ", "\n"}} IN
    IF N = {} THEN <<>> ELSE SubSeq(s, Min(N), Len(s))

\* `cut = content[:max_len]`.
CutWhole(c, max_len) == c
Cut(c, max_len) == SubSeq(c, 1, IF max_len < Len(c) THEN max_len ELSE Len(c))

\* Lines 33-37: the last line break of cut, else its last space, else max_len.
SplitPos(c, max_len) ==
    LET cut == Cut(c, max_len)
        nl == RFind(cut, "\n")
        sp == RFind(cut, " ") IN
    IF nl # -1 THEN nl ELSE IF sp # -1 THEN sp ELSE max_len

\* Lines 38-39: the chunk content[:pos] and the rest content[pos:].lstrip().
ChunkAt(c, pos) == SubSeq(c, 1, IF pos < Len(c) THEN pos ELSE Len(c))
RestAt(c, pos) == LStrip(SubSeq(c, pos + 1, Len(c)))

\* The while loop of lines 28-39, from the state (content, chunks).
RECURSIVE SplitLoop(_, _, _)
SplitLoop(c, max_len, acc) ==
    IF c = <<>> THEN acc
    ELSE IF Len(c) <= max_len THEN Append(acc, c)
    ELSE SplitLoop(RestAt(c, SplitPos(c, max_len)), max_len,
                   Append(acc, ChunkAt(c, SplitPos(c, max_len))))

\* _split_message(content, max_len).
SplitMessage(c, max_len) ==
    IF Len(c) <= max_len THEN <<c>> ELSE SplitLoop(c, max_len, <<>>)

Strings(n) == UNION {[1..k -> Chars] : k \in 0..n}

\* The arguments of one call.
InitSplitInputs ==
    /\ splitInput \in Strings(MaxStr)
    /\ splitMax \in 1..MaxSplit
    /\ content = <<>>
    /\ chunks = <<>>
    /\ splitPc = "idle"

\* Lines 25-27: the short content is returned as it is; else the loop starts.
SplitCall ==
    /\ splitPc = "idle"
    /\ IF Len(splitInput) <= splitMax
         THEN /\ chunks' = <<splitInput>>
              /\ content' = splitInput
              /\ splitPc' = "returned"
         ELSE /\ chunks' = <<>>
              /\ content' = splitInput
              /\ splitPc' = "loop"
    /\ UNCHANGED <<splitInput, splitMax, busVars, gatewayVars, discordVars, toolVars>>

\* One iteration of `while content`, lines 28-39.
SplitIteration ==
    /\ splitPc = "loop"
    /\ content # <<>>
    /\ IF Len(content) <= splitMax
         THEN /\ chunks' = Append(chunks, content)
              /\ splitPc' = "returned"
              /\ UNCHANGED content
         ELSE /\ chunks' = Append(chunks, ChunkAt(content, SplitPos(content, splitMax)))
              /\ content' = RestAt(content, SplitPos(content, splitMax))
              /\ UNCHANGED splitPc
    /\ UNCHANGED <<splitInput, splitMax, busVars, gatewayVars, discordVars, toolVars>>

\* `while content` ends on the empty rest: line 40.
SplitReturn ==
    /\ splitPc = "loop"
    /\ content = <<>>
    /\ splitPc' = "returned"
    /\ UNCHANGED <<splitInput, splitMax, content, chunks, busVars, gatewayVars, discordVars, toolVars>>

NextSplit == SplitCall \/ SplitIteration \/ SplitReturn

\* Only _split_message is called.
InitSplit ==
    InitBus /\ InitDiscord /\ InitGateway /\ InitCdp /\ InitCompactIdle
        /\ InitSplitInputs

SpecSplit == InitSplit /\ [][NextSplit]_vars

(* --------------------------- DiscordChannel --------------------------- *)

\* What `await self._http.post(...)` can come back with: a status below 400,
\* a 429 with a readable body, a 429 whose body or retry_after cannot be read,
\* another status from 400 on, an exception that is not a RuntimeError (a
\* transport failure), a RuntimeError raised by the client.
Responses == {"ok", "429", "429x", "err", "exc", "rt"}

\* Message contents given to send(): none, one chunk, two chunks.
Short == <<"a">>
Long == [k \in 1..MAX_MESSAGE_LENGTH + 1 |-> "a"]
SendContents == {<<>>, Short, Long}

\* Whether `attempt` is the last value of `for attempt in range(3)`
\* (`attempt < 2` is false).
LastAttemptOffByOne(a) == a >= 3
LastAttempt(a) == a >= 2

\* Line 154: the loop ran out of attempts.
ExhaustedReturns == "returned"
Exhausted == "raised"

\* Lines 149-152 and 154: an attempt failed with an exception that is not a
\* RuntimeError; sleep(1) before the next attempt, none after the last.
Failed(r) ==
    IF LastAttempt(r.attempt) THEN [r EXCEPT !.pc = Exhausted]
    ELSE [r EXCEPT !.pc = "sleeping"]

\* Line 133 is reached: the POST is made, or self._http is None by now and
\* the attribute access fails.
BeginAttempt(r, client) ==
    IF client
      THEN [r EXCEPT !.pc = "posting", !.posts = @ + 1, !.before = r.last,
                     !.last = "none"]
      ELSE Failed(r)

\* Lines 110-118 after a payload went through: the next chunk, or the end.
NextChunk(r, client) ==
    IF r.i < r.n
      THEN BeginAttempt([r EXCEPT !.i = @ + 1, !.attempt = 0, !.posts = 0,
                                  !.last = "none"], client)
      ELSE [r EXCEPT !.pc = "returned"]

\* Lines 134-152: what _send_payload does with the answer to its POST.
Answered(r, resp, client) ==
    CASE resp = "ok" -> NextChunk([r EXCEPT !.ok = @ + 1, !.last = "ok"], client)
      [] resp = "429" -> [r EXCEPT !.last = "429", !.pc = "sleeping"]
      [] resp = "429x" -> Failed([r EXCEPT !.last = "429x"])
      [] resp = "err" -> [r EXCEPT !.last = "err", !.pc = "raised"]
      [] resp = "exc" -> Failed([r EXCEPT !.last = "exc"])
      [] resp = "rt" -> [r EXCEPT !.last = "rt", !.pc = "raised"]

\* A sleep of _send_payload ends: the next value of `attempt`, or line 154.
Wake(r, client) ==
    IF LastAttempt(r.attempt) THEN [r EXCEPT !.pc = Exhausted]
    ELSE BeginAttempt([r EXCEPT !.attempt = @ + 1], client)

Finished(r) == r.pc \in {"returned", "raised"}

\* `finally: await self._stop_typing(msg.chat_id)` runs however the try ends.
StopsTypingOnSuccess(result) == result = "returned"
StopsTyping(result) == TRUE

\* _stop_typing(chat) when stop is TRUE: the entry is popped and cancelled.
StopTyping(chat, stop) ==
    IF stop
      THEN /\ typing' = [typing EXCEPT ![chat] = 0]
           /\ cancelledTasks' = cancelledTasks \cup ({typing[chat]} \ {0})
      ELSE UNCHANGED <<typing, cancelledTasks>>

\* send() moves from record sends[k] to r: when that ends the call, the
\* finally clause runs in the same step.
SendMoves(k, r) ==
    /\ sends' = [sends EXCEPT ![k] = r]
    /\ StopTyping(r.chat, Finished(r) /\ StopsTyping(r.pc))

\* start(): _running and the HTTP client are set (the gateway loop itself is
\* the source of the MESSAGE_CREATE events).
DiscordStart ==
    /\ ~dRunning
    /\ dRunning' = TRUE
    /\ http' = TRUE
    /\ UNCHANGED <<typing, cancelledTasks, nextTask, sends, ev, evPc, evCount,
                   evHanded, evTyping, handed>>
    /\ UNCHANGED <<busVars, gatewayVars, splitVars, toolVars>>

\* stop() up to its first await: every typing task is cancelled and the table
\* cleared.
DiscordStop ==
    /\ dRunning
    /\ dRunning' = FALSE
    /\ typing' = [c \in Chats |-> 0]
    /\ cancelledTasks' = cancelledTasks \cup ({typing[c] : c \in Chats} \ {0})
    /\ UNCHANGED <<http, nextTask, sends, ev, evPc, evCount, evHanded,
                   evTyping, handed>>
    /\ UNCHANGED <<busVars, gatewayVars, splitVars, toolVars>>

\* stop() after `await self._http.aclose()`: self._http = None.
DiscordStopEnd ==
    /\ ~dRunning
    /\ http
    /\ http' = FALSE
    /\ UNCHANGED <<dRunning, typing, cancelledTasks, nextTask, sends, ev, evPc,
                   evCount, evHanded, evTyping, handed>>
    /\ UNCHANGED <<busVars, gatewayVars, splitVars, toolVars>>

\* send(msg) is called, lines 102-118 up to the first POST.
SendStart(k, chat, c) ==
    /\ sends[k].pc = "idle"
    /\ \A j \in 1..(k - 1) : sends[j].pc # "idle"
    /\ IF ~http
         THEN /\ sends' = [sends EXCEPT ![k] = [IdleSend EXCEPT !.pc = "raised",
                                                               !.chat = chat]]
              /\ UNCHANGED <<typing, cancelledTasks>>
         ELSE LET list == IF c # <<>> THEN SplitMessage(c, MAX_MESSAGE_LENGTH)
                                      ELSE << <<>> >> IN
              SendMoves(k, BeginAttempt([IdleSend EXCEPT !.chat = chat,
                                                         !.n = Len(list),
                                                         !.i = 1,
                                                         !.entered = TRUE], TRUE))
    /\ UNCHANGED <<dRunning, http, nextTask, ev, evPc, evCount, evHanded,
                   evTyping, handed>>
    /\ UNCHANGED <<busVars, gatewayVars, splitVars, toolVars>>

\* The POST of send call k is answered, or fails.
PostAnswered(k, resp) ==
    /\ sends[k].pc = "posting"
    /\ SendMoves(k, Answered(sends[k], resp, http))
    /\ UNCHANGED <<dRunning, http, nextTask, ev, evPc, evCount, evHanded,
                   evTyping, handed>>
    /\ UNCHANGED <<busVars, gatewayVars, splitVars, toolVars>>

\* asyncio.sleep in _send_payload returns.
SleepEnds(k) ==
    /\ sends[k].pc = "sleeping"
    /\ SendMoves(k, Wake(sends[k], http))
    /\ UNCHANGED <<dRunning, http, nextTask, ev, evPc, evCount, evHanded,
                   evTyping, handed>>
    /\ UNCHANGED <<busVars, gatewayVars, splitVars, toolVars>>

\* The task running send() is cancelled at its await: CancelledError passes
\* both except clauses and the finally clause runs.
SendCancelled(k) ==
    /\ sends[k].pc \in {"posting", "sleeping"}
    /\ SendMoves(k, [sends[k] EXCEPT !.pc = "raised", !.last = "cancelled"])
    /\ UNCHANGED <<dRunning, http, nextTask, ev, evPc, evCount, evHanded,
                   evTyping, handed>>
    /\ UNCHANGED <<busVars, gatewayVars, splitVars, toolVars>>

\* BaseChannel.is_allowed: the configured allow list.
Allowed == {"u1"}
IsAllowed(sender) == sender \in Allowed

\* Lines 234-246: the events _handle_message_create returns on at once.
IgnoredUnlessBot(e) == e.sender = "" \/ e.channel = "" \/ ~IsAllowed(e.sender)
Ignored(e) == e.bot \/ e.sender = "" \/ e.channel = "" \/ ~IsAllowed(e.sender)

\* BaseChannel._handle_message: the event goes to the bus.
HandleMessage(e, n) ==
    /\ handed' = Append(handed, e.id)
    /\ evHanded' = n + 1

\* A _start_typing that overwrites the entry of the chat without cancelling
\* the task it held.
HandOnLeavesOld(e, n) ==
    /\ nextTask' = nextTask + 1
    /\ typing' = [typing EXCEPT ![e.channel] = nextTask + 1]
    /\ UNCHANGED cancelledTasks
    /\ evTyping' = nextTask + 1
    /\ HandleMessage(e, n)
    /\ evPc' = "idle"

\* Lines 273-287: _start_typing(channel_id), which stops the channel's old
\* typing task and creates a new one, then _handle_message.
HandOn(e, n) ==
    /\ nextTask' = nextTask + 1
    /\ typing' = [typing EXCEPT ![e.channel] = nextTask + 1]
    /\ cancelledTasks' = cancelledTasks \cup ({typing[e.channel]} \ {0})
    /\ evTyping' = nextTask + 1
    /\ HandleMessage(e, n)
    /\ evPc' = "idle"

\* The gateway loop gets a MESSAGE_CREATE event and awaits
\* _handle_message_create(payload), up to its first await or its end.
MessageCreate(bot, sender, channel, att) ==
    /\ dRunning
    /\ evPc = "idle"
    /\ evCount < MaxEvents
    /\ evCount' = evCount + 1
    /\ LET e == [id |-> evCount + 1, bot |-> bot, sender |-> sender,
                 channel |-> channel, att |-> att] IN
       /\ ev' = e
       /\ IF Ignored(e)
            THEN /\ evHanded' = 0
                 /\ evTyping' = 0
                 /\ UNCHANGED <<evPc, nextTask, typing, cancelledTasks, handed>>
            ELSE IF att = "download" /\ http
              THEN /\ evPc' = "downloading"
                   /\ evHanded' = 0
                   /\ evTyping' = 0
                   /\ UNCHANGED <<nextTask, typing, cancelledTasks, handed>>
              ELSE HandOn(e, 0)
    /\ UNCHANGED <<dRunning, http, sends>>
    /\ UNCHANGED <<busVars, gatewayVars, splitVars, toolVars>>

\* `await self._http.get(url)` of an attachment ends, with the file or with
\* an exception that is logged; then lines 273-287.
DownloadEnds ==
    /\ evPc = "downloading"
    /\ HandOn(ev, evHanded)
    /\ UNCHANGED <<dRunning, http, sends, ev, evCount>>
    /\ UNCHANGED <<busVars, gatewayVars, splitVars, toolVars>>

\* The gateway task is cancelled while the attachment is downloaded:
\* CancelledError leaves _handle_message_create at line 264.
HandlerCancelled ==
    /\ evPc = "downloading"
    /\ evPc' = "idle"
    /\ ev' = [ev EXCEPT !.att = "cancelled"]
    /\ UNCHANGED <<dRunning, http, typing, cancelledTasks, nextTask, sends,
                   evCount, evHanded, evTyping, handed>>
    /\ UNCHANGED <<busVars, gatewayVars, splitVars, toolVars>>

\* One send() call against every answer the Discord API or the transport can
\* give, while the channel is started and stopped and events come in.
NextPayload ==
    \/ DiscordStart
    \/ DiscordStop
    \/ DiscordStopEnd
    \/ \E chat \in Chats, c \in SendContents : SendStart(1, chat, c)
    \/ \E resp \in Responses : PostAnswered(1, resp)
    \/ SleepEnds(1)
    \/ SendCancelled(1)
    \/ \E chat \in Chats : MessageCreate(FALSE, "u1", chat, "none")

SpecPayload == Init /\ [][NextPayload]_vars

\* Concurrent send() calls and the gateway's events on the same chats; the
\* events here are all from an allowed user and without attachments.
NextTyping ==
    \/ DiscordStart
    \/ DiscordStop
    \/ \E k \in 1..MaxSends, chat \in Chats : SendStart(k, chat, Short)
    \/ \E k \in 1..MaxSends, resp \in {"ok", "429", "err"} : PostAnswered(k, resp)
    \/ \E k \in 1..MaxSends : SleepEnds(k)
    \/ \E k \in 1..MaxSends : SendCancelled(k)
    \/ \E chat \in Chats : MessageCreate(FALSE, "u1", chat, "none")

SpecTyping == Init /\ [][NextTyping]_vars

\* The gateway's events of every kind, with one short send() that is answered
\* at once.
NextEvents ==
    \/ DiscordStart
    \/ DiscordStop
    \/ DiscordStopEnd
    \/ \E bot \in BOOLEAN, sender \in {"", "u1", "u2"}, channel \in Chats \cup {""},
          att \in {"none", "download"} : MessageCreate(bot, sender, channel, att)
    \/ DownloadEnds
    \/ HandlerCancelled
    \/ \E chat \in Chats : SendStart(1, chat, Short)
    \/ \E resp \in {"ok", "err"} : PostAnswered(1, resp)

SpecEvents == Init /\ [][NextEvents]_vars

(* ------------------- DiscordChannel.start / stop ---------------------- *)

\* `while self._running:` of start(), line 66: connect again, or return.
StartLoopCheck(r) == IF r THEN "connecting" ELSE "returned"

\* Lines 74-78: after an exception the loop sleeps 5 s only while running.
AfterGatewayError(r) == IF r THEN "sleeping" ELSE StartLoopCheck(r)

\* start() is called with a token: lines 62-69, up to `websockets.connect`.
StartCalled ==
    /\ startPc = "idle"
    /\ dRunning' = TRUE
    /\ http' = TRUE
    /\ startPc' = StartLoopCheck(TRUE)
    /\ UNCHANGED <<conn, selfWs, stopPc, stopSeen, lateConnect>>
    /\ UNCHANGED <<typing, cancelledTasks, nextTask, sends, ev, evPc, evCount,
                   evHanded, evTyping, handed>>
    /\ UNCHANGED <<busVars, splitVars, toolVars>>

\* `websockets.connect` ends: with a connection, which is stored in self._ws
\* before _gateway_loop reads it (lines 69-71), or with an exception.
GatewayConnectEnds(ok) ==
    /\ startPc = "connecting"
    /\ IF ok
         THEN /\ startPc' = "reading"
              /\ conn' = "open"
              /\ selfWs' = "cur"
         ELSE /\ startPc' = AfterGatewayError(dRunning)
              /\ UNCHANGED <<conn, selfWs>>
    /\ UNCHANGED <<stopPc, stopSeen, lateConnect>>
    /\ UNCHANGED discordVars
    /\ UNCHANGED <<busVars, splitVars, toolVars>>

\* The `async for` of _gateway_loop is over and the `async with` is left:
\* normally (the connection was closed, or op 7 or 9 broke the loop) or with
\* an exception; then line 66 or lines 72-78.
LeaveConnection(how) ==
    /\ conn' = "none"
    /\ selfWs' = IF selfWs = "cur" THEN "stale" ELSE selfWs
    /\ startPc' = IF how = "error" THEN AfterGatewayError(dRunning)
                                   ELSE StartLoopCheck(dRunning)
    /\ lateConnect' = (lateConnect \/ (startPc' = "connecting" /\ stopSeen))
    /\ UNCHANGED <<stopPc, stopSeen>>
    /\ UNCHANGED discordVars
    /\ UNCHANGED <<busVars, splitVars, toolVars>>

\* The connection was closed on this side: the read loop ends.
ReadingClosed(how) ==
    /\ startPc = "reading"
    /\ conn = "closed"
    /\ LeaveConnection(how)

\* The gateway asks for a reconnect (op 7, op 9) or drops the connection.
GatewayEnds(how) ==
    /\ startPc = "reading"
    /\ conn = "open"
    /\ LeaveConnection(how)

\* `await asyncio.sleep(5)` of line 78 is over: back at line 66.
ReconnectSleepEnds ==
    /\ startPc = "sleeping"
    /\ startPc' = StartLoopCheck(dRunning)
    /\ lateConnect' = (lateConnect \/ (startPc' = "connecting" /\ stopSeen))
    /\ UNCHANGED <<conn, selfWs, stopPc, stopSeen>>
    /\ UNCHANGED discordVars
    /\ UNCHANGED <<busVars, splitVars, toolVars>>

\* Where stop() goes after line 88: it closes self._ws if there is one, then
\* the HTTP client if there is one.
StopAfterWs(h) == IF h THEN "aclosing" ELSE "done"
StopAfterTasks(w, h) == IF w # "none" THEN "closing" ELSE StopAfterWs(h)

\* stop() is called, lines 82-89: the flag is cleared and the typing tasks
\* are cancelled; self._ws, when set, is being closed.
StopCalled ==
    /\ stopPc \in {"idle", "done"}
    /\ startPc # "idle"
    /\ dRunning' = FALSE
    /\ typing' = [c \in Chats |-> 0]
    /\ cancelledTasks' = cancelledTasks \cup ({typing[c] : c \in Chats} \ {0})
    /\ stopSeen' = TRUE
    /\ stopPc' = StopAfterTasks(selfWs, http)
    /\ UNCHANGED <<startPc, conn, selfWs, lateConnect>>
    /\ UNCHANGED <<http, nextTask, sends, ev, evPc, evCount, evHanded,
                   evTyping, handed>>
    /\ UNCHANGED <<busVars, splitVars, toolVars>>

\* `await self._ws.close()` is over, lines 90-91: the connection self._ws
\* referred to when stop() was called is closed, and self._ws is None.
StopCloseEnds ==
    /\ stopPc = "closing"
    /\ conn' = IF selfWs = "cur" /\ conn = "open" THEN "closed" ELSE conn
    /\ selfWs' = "none"
    /\ stopPc' = StopAfterWs(http)
    /\ UNCHANGED <<startPc, stopSeen, lateConnect>>
    /\ UNCHANGED discordVars
    /\ UNCHANGED <<busVars, splitVars, toolVars>>

\* `await self._http.aclose()` is over, lines 92-94.
StopAcloseEnds ==
    /\ stopPc = "aclosing"
    /\ http' = FALSE
    /\ stopPc' = "done"
    /\ UNCHANGED <<startPc, conn, selfWs, stopSeen, lateConnect>>
    /\ UNCHANGED <<dRunning, typing, cancelledTasks, nextTask, sends, ev, evPc,
                   evCount, evHanded, evTyping, handed>>
    /\ UNCHANGED <<busVars, splitVars, toolVars>>

\* start() and stop() with the sends of one chat going on beside them.
NextGateway ==
    \/ StartCalled
    \/ \E ok \in BOOLEAN : GatewayConnectEnds(ok)
    \/ \E how \in {"end", "error"} : ReadingClosed(how)
    \/ \E how \in {"end", "error"} : GatewayEnds(how)
    \/ ReconnectSleepEnds
    \/ StopCalled
    \/ StopCloseEnds
    \/ StopAcloseEnds
    \/ \E chat \in Chats : SendStart(1, chat, Short)
    \/ \E resp \in {"ok", "err"} : PostAnswered(1, resp)

SpecGateway == Init /\ [][NextGateway]_vars

\* Every step of start() and stop() that waits on this process or on a
\* bounded wait of a library ends: opening and closing a connection, closing
\* the HTTP client, the 5 s sleep, and the read loop of a closed connection.
\* What the gateway sends, and when, is not in the hands of the channel.
GatewayFairness ==
    /\ WF_vars(\E ok \in BOOLEAN : GatewayConnectEnds(ok))
    /\ WF_vars(\E how \in {"end", "error"} : ReadingClosed(how))
    /\ WF_vars(ReconnectSleepEnds)
    /\ WF_vars(StopCloseEnds)
    /\ WF_vars(StopAcloseEnds)

LiveGateway == Init /\ [][NextGateway]_vars /\ GatewayFairness

(* ----------------------------- CDPSession ----------------------------- *)

\* Line 35: an instance exists and has a websocket.
HasLive == instance # 0 /\ ws[instance] # "none"

\* Lines 36-39: the instance is kept when the ping was answered in time.
AliveAlways(pong) == TRUE
Alive(pong) == pong

\* Lines 44-45: `session = CDPSession()`, then `await session._connect()`.
NewSession(c) ==
    /\ nSessions' = nSessions + 1
    /\ goc' = [c EXCEPT !.ret = nSessions + 1]
    /\ gpc' = "connecting"

\* get_or_create() is called: line 35, up to the ping or to _connect.
GetOrCreate ==
    /\ gpc = "idle"
    /\ gocCount < MaxCalls
    /\ gocCount' = gocCount + 1
    /\ IF HasLive
         THEN /\ goc' = [NoCall EXCEPT !.had = instance, !.opened = nConnects]
              /\ gpc' = "pinging"
              /\ UNCHANGED nSessions
         ELSE NewSession([NoCall EXCEPT !.had = instance, !.opened = nConnects])
    /\ UNCHANGED <<instance, ws, nConnects, lastCall>>
    /\ UNCHANGED <<msgId, pending, rawCalls, listener, co>>
    /\ UNCHANGED <<busVars, gatewayVars, discordVars, splitVars, compactVars>>

\* wait_for(ping, 2) ends: with the pong, or with an exception (timeout,
\* closed connection).  Only an open connection can answer.
PingEnds(pong) ==
    /\ gpc = "pinging"
    /\ pong => ws[instance] = "open"
    /\ IF Alive(pong)
         THEN /\ lastCall' = [goc EXCEPT !.kind = "reuse", !.pong = pong,
                                         !.ret = instance, !.inst = instance,
                                         !.opened = nConnects - goc.opened]
              /\ gpc' = "idle"
              /\ goc' = NoCall
         ELSE /\ goc' = [goc EXCEPT !.pong = pong]
              /\ gpc' = "closing"
              /\ UNCHANGED lastCall
    /\ UNCHANGED <<instance, ws, nSessions, nConnects, gocCount>>
    /\ UNCHANGED <<msgId, pending, rawCalls, listener, co>>
    /\ UNCHANGED <<busVars, gatewayVars, discordVars, splitVars, compactVars>>

\* close() of the stale instance ends (what _ws.close() raises is swallowed):
\* its _ws is None and CDPSession._instance is None; then lines 44-45.
CloseEnds ==
    /\ gpc = "closing"
    /\ ws' = [ws EXCEPT ![instance] = "none"]
    /\ instance' = 0
    /\ NewSession([goc EXCEPT !.closed = instance])
    /\ UNCHANGED <<nConnects, gocCount, lastCall>>
    /\ UNCHANGED <<msgId, pending, rawCalls, listener, co>>
    /\ UNCHANGED <<busVars, gatewayVars, discordVars, splitVars, compactVars>>

\* Line 46: the new session becomes the singleton.
Recorded(old, new) == new

\* _connect() of the new session ends: connected with the three domains
\* enabled, or with an exception before or after the websocket was opened.
ConnectEnds(how) ==
    /\ gpc = "connecting"
    /\ gpc' = "idle"
    /\ goc' = NoCall
    /\ IF how = "ok"
         THEN /\ ws' = [ws EXCEPT ![goc.ret] = "open"]
              /\ nConnects' = nConnects + 1
              /\ instance' = Recorded(instance, goc.ret)
              /\ lastCall' = [goc EXCEPT !.kind = "new",
                                         !.inst = Recorded(instance, goc.ret),
                                         !.opened = nConnects + 1 - goc.opened]
         ELSE /\ ws' = [ws EXCEPT ![goc.ret] = IF how = "enable" THEN "open" ELSE "none"]
              /\ nConnects' = IF how = "enable" THEN nConnects + 1 ELSE nConnects
              /\ lastCall' = [goc EXCEPT !.kind = "raised", !.ret = 0,
                                         !.inst = instance,
                                         !.opened = nConnects' - goc.opened]
              /\ UNCHANGED instance
    /\ UNCHANGED <<nSessions, gocCount>>
    /\ UNCHANGED <<msgId, pending, rawCalls, listener, co>>
    /\ UNCHANGED <<busVars, gatewayVars, discordVars, splitVars, compactVars>>

\* The browser goes away: the session keeps its _ws, which answers no ping.
ConnectionDies(k) ==
    /\ ws[k] = "open"
    /\ ws' = [ws EXCEPT ![k] = "dead"]
    /\ UNCHANGED <<instance, nSessions, nConnects, gpc, goc, gocCount, lastCall>>
    /\ UNCHANGED <<msgId, pending, rawCalls, listener, co>>
    /\ UNCHANGED <<busVars, gatewayVars, discordVars, splitVars, compactVars>>

NextSingleton ==
    \/ GetOrCreate
    \/ \E pong \in BOOLEAN : PingEnds(pong)
    \/ CloseEnds
    \/ \E how \in {"ok", "noconn", "enable"} : ConnectEnds(how)
    \/ \E k \in 1..MaxCalls : ConnectionDies(k)

SpecSingleton == Init /\ [][NextSingleton]_vars

(* --------------- CDPSession.get_or_create, concurrent calls ----------- *)

\* Calls between their first statement and their return.
InFlight == {c \in Callers : co[c].pc \in {"pinging", "closing", "connecting"}}

\* Lines 44-45 for caller c, whose record so far is r.
CoNew(c, r) ==
    /\ nSessions' = nSessions + 1
    /\ co' = [co EXCEPT ![c] = [r EXCEPT !.pc = "connecting",
                                         !.sess = nSessions + 1]]

\* Task c calls get_or_create(): line 35, up to the ping or to _connect.
CoCall(c) ==
    /\ c \notin InFlight
    /\ nSessions + Cardinality(InFlight) < MaxCalls
    /\ IF HasLive
         THEN /\ co' = [co EXCEPT ![c] = [NoCoCall EXCEPT !.pc = "pinging",
                                                          !.target = instance,
                                                          !.failed = co[c].failed]]
              /\ UNCHANGED nSessions
         ELSE CoNew(c, [NoCoCall EXCEPT !.failed = co[c].failed])
    /\ UNCHANGED <<instance, ws, nConnects>>
    /\ UNCHANGED <<gpc, goc, gocCount, lastCall, msgId, pending, rawCalls, listener>>
    /\ UNCHANGED <<busVars, gatewayVars, discordVars, splitVars, compactVars>>

\* The ping of task c ends, lines 37-43.  With the pong, `cls._instance` as it
\* is now is returned.  Else close() is called on `cls._instance` as it is
\* now: None raises AttributeError, which is swallowed; a session whose _ws
\* is set waits for `_ws.close()`.
CoPingEnds(c, pong) ==
    /\ co[c].pc = "pinging"
    /\ pong => ws[co[c].target] = "open"
    /\ IF Alive(pong)
         THEN /\ co' = [co EXCEPT ![c].pc = "returned", ![c].ret = instance]
              /\ UNCHANGED <<instance, ws, nSessions>>
         ELSE IF instance = 0
           THEN /\ CoNew(c, co[c])
                /\ UNCHANGED <<instance, ws>>
           ELSE IF ws[instance] = "none"
             THEN /\ instance' = 0
                  /\ CoNew(c, [co[c] EXCEPT !.target = instance])
                  /\ UNCHANGED ws
             ELSE /\ co' = [co EXCEPT ![c].pc = "closing", ![c].target = instance]
                  /\ UNCHANGED <<instance, ws, nSessions>>
    /\ UNCHANGED nConnects
    /\ UNCHANGED <<gpc, goc, gocCount, lastCall, msgId, pending, rawCalls, listener>>
    /\ UNCHANGED <<busVars, gatewayVars, discordVars, splitVars, compactVars>>

\* close() of task c ends, lines 266-279: the _ws of the session it was
\* called on is None and `CDPSession._instance = None`, whatever the
\* singleton is by now; then lines 44-45.
CoCloseEnds(c) ==
    /\ co[c].pc = "closing"
    /\ ws' = [ws EXCEPT ![co[c].target] = "none"]
    /\ instance' = 0
    /\ CoNew(c, co[c])
    /\ UNCHANGED nConnects
    /\ UNCHANGED <<gpc, goc, gocCount, lastCall, msgId, pending, rawCalls, listener>>
    /\ UNCHANGED <<busVars, gatewayVars, discordVars, splitVars, compactVars>>

\* _connect() of task c's new session ends, lines 45-47: connected, and the
\* session is recorded and returned; or with an exception before or after the
\* websocket was opened.
CoConnectEnds(c, how) ==
    /\ co[c].pc = "connecting"
    /\ IF how = "ok"
         THEN /\ ws' = [ws EXCEPT ![co[c].sess] = "open"]
              /\ nConnects' = nConnects + 1
              /\ instance' = Recorded(instance, co[c].sess)
              /\ co' = [co EXCEPT ![c].pc = "returned", ![c].ret = co[c].sess]
         ELSE /\ ws' = [ws EXCEPT ![co[c].sess] =
                                      IF how = "enable" THEN "open" ELSE "none"]
              /\ nConnects' = IF how = "enable" THEN nConnects + 1 ELSE nConnects
              /\ co' = [co EXCEPT ![c].pc = "raised", ![c].failed = TRUE]
              /\ UNCHANGED instance
    /\ UNCHANGED nSessions
    /\ UNCHANGED <<gpc, goc, gocCount, lastCall, msgId, pending, rawCalls, listener>>
    /\ UNCHANGED <<busVars, gatewayVars, discordVars, splitVars, compactVars>>

NextConcurrent ==
    \/ \E c \in Callers : CoCall(c)
    \/ \E c \in Callers, pong \in BOOLEAN : CoPingEnds(c, pong)
    \/ \E c \in Callers : CoCloseEnds(c)
    \/ \E c \in Callers, how \in {"ok", "noconn", "enable"} : CoConnectEnds(c, how)
    \/ \E k \in 1..MaxCalls : ConnectionDies(k)

SpecConcurrent == Init /\ [][NextConcurrent]_vars

(* ------------------- CDPSession._raw_send and _listen ----------------- *)

\* Ids a message from the browser may carry: -1 stands for a message without
\* "id" (an event), 0 and MaxCmds + 1 are ids no command ever had.
WireIds == -1..(MaxCmds + 1)

\* Lines 140-141: `self._msg_id += 1; msg_id = self._msg_id`.
NextMsgId(n) == n + 1

\* _raw_send() on a connected session, lines 138-147: the id is taken, the
\* future is stored under it and the command is sent; `sent` tells whether
\* _ws.send returned or raised.
RawSend(sent) ==
    /\ Len(rawCalls) < MaxCmds
    /\ msgId' = NextMsgId(msgId)
    /\ pending' = [k \in DOMAIN pending \cup {NextMsgId(msgId)} |->
                     IF k = NextMsgId(msgId) THEN Len(rawCalls) + 1 ELSE pending[k]]
    /\ rawCalls' = Append(rawCalls, [id |-> NextMsgId(msgId),
                                     state |-> IF sent THEN "waiting" ELSE "failed",
                                     got |-> 0])
    /\ UNCHANGED listener
    /\ UNCHANGED <<instance, ws, nSessions, nConnects, gpc, goc, gocCount, lastCall,
                   co>>
    /\ UNCHANGED <<busVars, gatewayVars, discordVars, splitVars, compactVars>>

\* Line 170: the entry of _pending a message with this id resolves (0: none).
ResolvedOldest(p, id) == IF DOMAIN p = {} THEN 0 ELSE Min(DOMAIN p)
Resolved(p, id) == IF id # -1 /\ id \in DOMAIN p THEN id ELSE 0

\* _listen reads one message from the browser, lines 168-179: the future of
\* its id, if one is pending, is popped and completed.  Completing the future
\* of a call that timed out raises InvalidStateError, which ends the task.
Receive(id, isError) ==
    /\ listener = "alive"
    /\ LET key == Resolved(pending, id) IN
       IF key = 0
         THEN UNCHANGED <<pending, rawCalls, listener>>
         ELSE /\ pending' = [k \in DOMAIN pending \ {key} |-> pending[k]]
              /\ IF rawCalls[pending[key]].state = "waiting"
                   THEN /\ rawCalls' = [rawCalls EXCEPT ![pending[key]] =
                                          [@ EXCEPT !.state = IF isError THEN "error"
                                                                         ELSE "result",
                                                    !.got = id]]
                        /\ UNCHANGED listener
                   ELSE /\ listener' = "dead"
                        /\ UNCHANGED rawCalls
    /\ UNCHANGED msgId
    /\ UNCHANGED <<instance, ws, nSessions, nConnects, gpc, goc, gocCount, lastCall,
                   co>>
    /\ UNCHANGED <<busVars, gatewayVars, discordVars, splitVars, compactVars>>

\* Line 148: wait_for gives up after 30 s; the future is cancelled and its
\* entry stays in _pending.
RawTimeout(c) ==
    /\ c \in 1..Len(rawCalls)
    /\ rawCalls[c].state = "waiting"
    /\ rawCalls' = [rawCalls EXCEPT ![c] = [@ EXCEPT !.state = "timeout"]]
    /\ UNCHANGED <<msgId, pending, listener>>
    /\ UNCHANGED <<instance, ws, nSessions, nConnects, gpc, goc, gocCount, lastCall,
                   co>>
    /\ UNCHANGED <<busVars, gatewayVars, discordVars, splitVars, compactVars>>

NextTransport ==
    \/ \E sent \in BOOLEAN : RawSend(sent)
    \/ \E id \in WireIds, isError \in BOOLEAN : Receive(id, isError)
    \/ \E c \in 1..MaxCmds : RawTimeout(c)

SpecTransport == Init /\ [][NextTransport]_vars

(* ----------------------------- maybe_compact -------------------------- *)

\* A message: its role, the length of its JSON text, the tokens litellm
\* counts for it, and what its content is.
Msg(role, chars, toks, text) ==
    [role |-> role, chars |-> chars, toks |-> toks, text |-> text]

InputMsgs ==
    {Msg("system", 8, 2, "prompt"), Msg("user", 8, 3, "turn"),
     Msg("assistant", 12, 3, "turn")}

RECURSIVE SumChars(_)
SumChars(ms) == IF ms = <<>> THEN 0 ELSE Head(ms).chars + SumChars(Tail(ms))

RECURSIVE SumToks(_)
SumToks(ms) == IF ms = <<>> THEN 0 ELSE Head(ms).toks + SumToks(Tail(ms))

\* estimate_tokens: litellm's token_counter, or a quarter of the characters
\* when litellm is not there.
EstimateTokens(ms, counter) ==
    IF counter = "litellm" THEN SumToks(ms) ELSE SumChars(ms) \div 4

\* `int(context_window * threshold_ratio)` for a window and ratio >= 0.
Threshold(window, ratio) == (window * ratio[1]) \div ratio[2]

\* Line 94, negated: compaction is triggered.
TriggersAbove(count, threshold) == count > threshold
Triggers(count, threshold) == ~(count < threshold)

\* Lines 103-107: the leading system message, if there is one.
SystemMsg(ms) == IF ms # <<>> /\ ms[1].role = "system" THEN <<ms[1]>> ELSE <<>>

\* Lines 115-128: the summary message and the acknowledgement.
SummaryMsg(text) == Msg("user", 16, 4, text)
AckMsg == Msg("assistant", 20, 5, "ack")

\* The arguments of one call.
InitCompactInputs ==
    /\ cmIn \in UNION {[1..k -> InputMsgs] : k \in 0..MaxMsgs}
    /\ cmWindow \in {0, 5, 10}
    /\ cmRatio \in {<<1, 2>>, <<3, 5>>}
    /\ cmCounter \in {"litellm", "fallback"}
    /\ cmPc = "idle"
    /\ cmOut = <<>>
    /\ cmCompacted = FALSE
    /\ cmCalls = 0

\* maybe_compact, lines 91-109: below the threshold the list is returned as
\* it is; else summarize_messages awaits provider.chat.
CompactCall ==
    /\ cmPc = "idle"
    /\ IF Triggers(EstimateTokens(cmIn, cmCounter), Threshold(cmWindow, cmRatio))
         THEN /\ cmPc' = "summarizing"
              /\ cmCalls' = cmCalls + 1
              /\ UNCHANGED <<cmOut, cmCompacted>>
         ELSE /\ cmPc' = "returned"
              /\ cmOut' = cmIn
              /\ cmCompacted' = FALSE
              /\ UNCHANGED cmCalls
    /\ UNCHANGED <<cmIn, cmWindow, cmRatio, cmCounter>>
    /\ UNCHANGED <<busVars, gatewayVars, discordVars, splitVars, cdpVars>>

\* provider.chat ends: with a text, with no content ("(empty summary)"), or
\* with an exception, which maybe_compact lets through; lines 111-132.
SummaryEnds(how) ==
    /\ cmPc = "summarizing"
    /\ IF how = "raise"
         THEN /\ cmPc' = "raised"
              /\ UNCHANGED <<cmOut, cmCompacted>>
         ELSE /\ cmPc' = "returned"
              /\ cmOut' = SystemMsg(cmIn)
                            \o <<SummaryMsg(IF how = "text" THEN "summary"
                                                            ELSE "(empty summary)"),
                                 AckMsg>>
              /\ cmCompacted' = TRUE
    /\ UNCHANGED <<cmIn, cmWindow, cmRatio, cmCounter, cmCalls>>
    /\ UNCHANGED <<busVars, gatewayVars, discordVars, splitVars, cdpVars>>

NextCompact ==
    \/ CompactCall
    \/ \E how \in {"text", "empty", "raise"} : SummaryEnds(how)

\* Only maybe_compact is called.
InitCompact ==
    InitBus /\ InitDiscord /\ InitGateway /\ InitSplitIdle /\ InitCdp
        /\ InitCompactInputs

SpecCompact == InitCompact /\ [][NextCompact]_vars

(* ---------------------- claims on the inbound queue ------------------- *)

PublishedInbound == {[src |-> p, n |-> k] : p \in Producers, k \in 1..MaxPub}

\* The places <<consumer, position>> at which m was returned by consume_inbound.
Returned(m) ==
    UNION {{<<c, i>> : i \in {j \in 1..Len(received[c]) : received[c][j] = m}}
           : c \in Consumers}

PerProducerOrder ==
    \A c \in Consumers : \A i, j \in 1..Len(received[c]) :
        (i < j /\ received[c][i].src = received[c][j].src)
            => received[c][i].n < received[c][j].n

ReturnsOldest ==
    \A c \in Consumers :
        received'[c] # received[c]
            => /\ inbound # <<>>
               /\ received'[c] = Append(received[c], Head(inbound))
               /\ inbound' = Tail(inbound)

\* C1: a consumer receives every producer's messages in that producer's publish
\* order, and each consume_inbound return is the oldest message then in the
\* inbound queue, which it removes.
C1_InboundFifo == []PerProducerOrder /\ [][ReturnsOldest]_vars

\* One consumer drained all messages of two producers, interleaved.
C1_Witness ==
    \E c \in Consumers :
        /\ Len(received[c]) = MaxPub * Cardinality(Producers)
        /\ received[c][1].src # received[c][2].src

\* C2: every published inbound message is either still queued or was returned
\* by exactly one consume_inbound call: never returned twice, never lost.
C2_ExactlyOneConsumer ==
    \A m \in PublishedInbound :
        Count(inbound, m) + Cardinality(Returned(m))
            = (IF m.n <= pubCount[m.src] THEN 1 ELSE 0)

\* A getter was woken for a message that a racing consume_inbound call took.
C2_Witness ==
    \E c, e \in Consumers :
        /\ c # e
        /\ cpc[c] = "woken"
        /\ inbound = <<>>
        /\ received[e] # <<>>

(* ------------------------ claims on direct send ----------------------- *)

\* C3: when the adapter bound to msg.channel raises, send_direct ends for its
\* caller with that same error and the message is never put on the outbound
\* queue.
C3_DirectSendPropagates ==
    \A i \in 1..Len(adapterCalls) :
        LET a == adapterCalls[i] IN
        a.outcome \in Errors
            => /\ a.msg.id \in DOMAIN directResult
               /\ directResult[a.msg.id] = a.outcome
               /\ a.msg \notin Range(enqLog)
               /\ a.msg \notin Range(outbound)

\* An adapter raised while another message was waiting on the outbound queue.
C3_Witness ==
    /\ \E i \in 1..Len(adapterCalls) : adapterCalls[i].outcome = "boom"
    /\ outbound # <<>>

\* C4: a message given to send_direct while no adapter is bound to its channel
\* raises nothing and takes the place after every message put before it: it is
\* on the outbound queue behind those not yet consumed, or consume_outbound has
\* returned exactly it, after them.
C4_FallbackEnqueues ==
    /\ \A id \in fallback :
        /\ id \in DOMAIN directResult
        /\ directResult[id] = "ok"
        /\ \E k \in 1..Len(enqLog) : enqLog[k].id = id
        /\ \A i \in 1..Len(adapterCalls) : adapterCalls[i].msg.id # id
    /\ Len(consumedOut) + Len(outbound) = Len(enqLog)
    /\ \A k \in 1..Len(enqLog) :
        enqLog[k].id \in fallback
            => IF k <= Len(consumedOut)
                 THEN consumedOut[k] = enqLog[k]
                 ELSE outbound[k - Len(consumedOut)] = enqLog[k]

\* consume_outbound returned a fallback message after a message queued before it.
C4_Witness ==
    \E k \in 2..Len(consumedOut) : consumedOut[k].id \in fallback

(* ---------------------- claims on the dispatcher ---------------------- *)

\* The callbacks invoked with msg, in the order of their invocation.
CallsFor(msg) ==
    LET hits == SelectSeq(delivered, LAMBDA e : e[1] = msg) IN
    [k \in 1..Len(hits) |-> hits[k][2]]

\* C5: when the for loop over a dispatched message is over, every subscriber
\* of the message's channel has been invoked with it, also those that come
\* after a subscriber that raised.
C5_ErrorIsolation ==
    \A msg \in Range(dispatched) :
        msg.id \in DOMAIN fanDone
            => \A s \in fanDone[msg.id] : <<msg, s>> \in Range(delivered)

\* The first subscriber raised and the second was invoked with the same message.
C5_Witness ==
    \E msg \in Range(dispatched) :
        /\ msg.id \in DOMAIN fanDone
        /\ Len(subs[msg.channel]) >= 2
        /\ <<msg, subs[msg.channel][1]>> \in errors
        /\ <<msg, subs[msg.channel][2]>> \in Range(delivered)

\* C6: with one dispatcher loop no callback is invoked twice with a message,
\* every message whose dispatch is over was delivered exactly once to each
\* subscriber of its channel, and outbound_size is 0 once every message put on
\* the queue has been dispatched.
C6_ExactlyOnceDelivery ==
    /\ \A e \in Range(delivered) : Count(delivered, e) = 1
    /\ \A msg \in Range(dispatched) :
        msg.id \in DOMAIN fanDone
            => \A s \in fanDone[msg.id] : Count(delivered, <<msg, s>>) = 1
    /\ (\A msg \in Range(enqLog) : msg.id \in DOMAIN fanDone) => OutboundSize = 0

\* Every published message was dispatched, one of them to two subscribers.
C6_Witness ==
    /\ Len(enqLog) = MaxOut
    /\ \A msg \in Range(enqLog) : msg.id \in DOMAIN fanDone
    /\ \E msg \in Range(enqLog) : Cardinality(fanDone[msg.id]) = 2
    /\ OutboundSize = 0

StopBoundsDequeues == \A d \in SingleLoop : deqStopped[d] <= 1

StopLeadsToExit ==
    \A d \in SingleLoop :
        (pc[d] \in Active /\ ~running) ~> (pc[d] \notin Active)

\* C7: once stop() has been called on a running loop, the loop dequeues at most
\* one more message (the one that ends the wait in progress) and then returns,
\* also when the outbound queue stays empty.
C7_StopExits == []StopBoundsDequeues /\ StopLeadsToExit

\* The loop returned after stop() although nothing was ever published.
C7_Witness ==
    /\ pc["d1"] = "done"
    /\ enqLog = <<>>
    /\ ~running

\* C8: a message dequeued while its channel has no subscriber is dropped: no
\* callback is ever invoked with it, it is dequeued once and it never is on
\* the outbound queue again.
C8_NoSubscriberDrop ==
    \A msg \in Range(dispatched) :
        (msg.id \in DOMAIN fanDone /\ fanDone[msg.id] = {})
            => /\ CallsFor(msg) = <<>>
               /\ Count(dispatched, msg) = 1
               /\ msg \notin Range(outbound)
               /\ \A d \in SingleLoop : cur[d] # msg

\* A message was dropped, and its channel got a subscriber afterwards.
C8_Witness ==
    \E msg \in Range(dispatched) :
        /\ msg.id \in DOMAIN fanDone
        /\ fanDone[msg.id] = {}
        /\ subs[msg.channel] # <<>>
        /\ \E d \in SingleLoop : pc[d] = "waiting"

\* C9: the callbacks invoked with a message are subscribers of the message's
\* channel, invoked in the order of their registration: the calls made so far
\* are a prefix of the channel's subscriber list.
C9_ChannelSubscribersInOrder ==
    \A msg \in Range(dispatched) :
        LET calls == CallsFor(msg)
            list == subs[msg.channel] IN
        /\ Len(calls) <= Len(list)
        /\ \A k \in 1..Len(calls) : calls[k] = list[k]

\* A message went to the two subscribers of its channel, and a message of the
\* other channel was dispatched to nobody.
C9_Witness ==
    \E msg, other \in Range(dispatched) :
        /\ Len(CallsFor(msg)) = 2
        /\ other.channel # msg.channel
        /\ other.id \in DOMAIN fanDone

LoopEndsOnlyByStopOrCancel ==
    \A d \in SingleLoop :
        (pc[d] \in Active /\ pc'[d] \notin Active)
            => \/ pc'[d] = "done" /\ ~running
               \/ pc'[d] = "cancelled"

DispatchGoesOnAfterError ==
    \A id \in 1..MaxOut : \A d \in SingleLoop :
        (errors # {} /\ id \in Range(Ids(outbound)) /\ pc[d] \in Active /\ running)
            ~> (id \in Range(Ids(dispatched)) \/ pc[d] \notin Active \/ ~running)

\* C10: the loop leaves its active states only by returning after stop() or by
\* cancellation, whatever the subscribers raise, and a message queued after a
\* subscriber raised is dequeued unless the loop is stopped or cancelled first.
C10_ErrorsNeverEndLoop ==
    [][LoopEndsOnlyByStopOrCancel]_vars /\ DispatchGoesOnAfterError

\* A message published after a subscriber raised was delivered.
C10_Witness ==
    \E e \in errors : \E f \in Range(delivered) :
        /\ f[1].id > e[1].id
        /\ running

(* ------------------- claims on two concurrent loops ------------------- *)

DeliveredOnce == \A e \in Range(delivered) : Count(delivered, e) = 1

DequeuedOnce == \A msg \in Range(enqLog) : Count(dispatched, msg) <= 1

\* C11, as stated: once two dispatch_outbound() loops are both inside the
\* fan-out of a message, some subscriber has been called twice for one message.
C11_TwoLoopsDuplicate ==
    (pc["d1"] = "incallback" /\ pc["d2"] = "incallback")
        => \E e \in Range(delivered) : Count(delivered, e) > 1

\* C11, amended: with two dispatch_outbound() loops on one bus every message
\* is dequeued by at most one of the loops and no subscriber is called twice
\* for the same message.
C11_TwoLoopsCompete == DeliveredOnce /\ DequeuedOnce

\* Both loops are in the callback of the same subscriber list, each with a
\* message of its own.
C11_Witness ==
    /\ pc["d1"] = "incallback"
    /\ pc["d2"] = "incallback"
    /\ cur["d1"] # cur["d2"]
    /\ cur["d1"].channel = cur["d2"].channel

(* ------------------- claims on the bounded wait ----------------------- *)

Held(msg) == IF pc["d1"] = "got" /\ cur["d1"] = msg THEN 1 ELSE 0

\* C12: every message put on the outbound queue is, at any moment, in exactly
\* one place: still queued, held by the wait that dequeued it, or dispatched;
\* neither the 1.0 s timeout nor a cancellation of the loop removes it.
C12_NoMessageLost ==
    \A msg \in Range(enqLog) :
        Count(outbound, msg) + Held(msg) + Count(dispatched, msg) = 1

\* The loop was cancelled at the wait (every dequeued message finished its
\* fan-out), one message is dispatched and another is still on the queue.
C12_Witness ==
    /\ pc["d1"] = "cancelled"
    /\ outbound # <<>>
    /\ dispatched # <<>>
    /\ \A msg \in Range(dispatched) : msg.id \in DOMAIN fanDone

(* ------------------- claims on send_direct and the registry ----------- *)

AdapterCallsOf(msg) == SelectSeq(adapterCalls, LAMBDA a : a.msg.id = msg.id)

BoundCall(c) == c.msg.channel \in c.reg

DirectToAdapterOnce ==
    \A i \in 1..Len(directCalls) :
        BoundCall(directCalls[i]) =>
            /\ Len(AdapterCallsOf(directCalls[i].msg)) = 1
            /\ AdapterCallsOf(directCalls[i].msg)[1].msg = directCalls[i].msg
            /\ directCalls[i].msg \notin Range(enqLog)

DirectStepLeavesBus ==
    (Len(directCalls') > Len(directCalls)
        /\ BoundCall(directCalls'[Len(directCalls')]))
        => /\ Len(adapterCalls') = Len(adapterCalls) + 1
           /\ UNCHANGED <<inbound, outbound, delivered, dispatched>>

\* C13: a send_direct() whose channel has an adapter calls that adapter's
\* send exactly once with the message as given, calls no subscriber and leaves
\* the inbound and the outbound queue as they were.
C13_DirectCallsAdapterOnce == []DirectToAdapterOnce /\ [][DirectStepLeavesBus]_vars

\* An adapter send failed while its channel had a subscriber and the outbound
\* queue held a message.
C13_Witness ==
    \E i \in 1..Len(directCalls) :
        /\ BoundCall(directCalls[i])
        /\ directResult[directCalls[i].msg.id] \in Errors
        /\ subs[directCalls[i].msg.channel] # <<>>
        /\ outbound # <<>>

PublishStepOnlyEnqueues ==
    (nextId' > nextId /\ Len(directCalls') = Len(directCalls))
        => /\ outbound' = Append(outbound, enqLog'[Len(enqLog')])
           /\ pubResult'[nextId'] = "ok"
           /\ UNCHANGED <<delivered, dispatched, errors>>

\* C14: publish_outbound() returns normally once the message is on the queue,
\* before any subscriber is called, and what the subscribers later raise never
\* changes what the publisher was told.
C14_PublishFireAndForget ==
    /\ [](\A id \in DOMAIN pubResult : pubResult[id] = "ok")
    /\ [][PublishStepOnlyEnqueues]_vars

\* A subscriber raised for a published message.
C14_Witness ==
    \E e \in errors : e[1].id \in DOMAIN pubResult /\ pubResult[e[1].id] = "ok"

\* C15: register_channels() replaces the registry: send_direct() uses an
\* adapter exactly when the latest registered mapping binds its channel, and
\* falls back to the outbound queue otherwise, whatever earlier mappings bound.
C15_RegisterReplaces ==
    /\ channels = lastReg
    /\ \A i \in 1..Len(directCalls) :
        LET c == directCalls[i] IN
        /\ (AdapterCallsOf(c.msg) # <<>>) <=> BoundCall(c)
        /\ (c.msg \in Range(enqLog)) <=> ~BoundCall(c)

\* A channel was bound at one send_direct() and, after a later
\* register_channels() without it, a send_direct() on it was queued.
C15_Witness ==
    \E i, j \in 1..Len(directCalls) :
        /\ i < j
        /\ directCalls[i].msg.channel = directCalls[j].msg.channel
        /\ BoundCall(directCalls[i])
        /\ ~BoundCall(directCalls[j])
        /\ directCalls[j].msg \in Range(enqLog)

(* ------------------------- claims on stop() --------------------------- *)

\* C16: stop() can be called in every state, and calling it when the running
\* flag is already false changes nothing (the record that the call was made
\* aside).
C16_StopIdempotent ==
    /\ []ENABLED Stop
    /\ [][(~running /\ Stop)
             => UNCHANGED <<inVars, outVars, directVars, loopVars, sideVars>>]_vars

\* The flag is false while the loop is still at its wait.
C16_Witness == ~running /\ pc["d1"] = "waiting" /\ outbound # <<>>

StopLeavesBus ==
    (running /\ ~running')
        => UNCHANGED <<inbound, inGetters, cpc, received, outbound, enqLog,
                       subs, channels, consumedOut, pc>>

StoppedStillConsumable ==
    ~running =>
        /\ outbound # <<>> => ENABLED ConsumeOutbound
        /\ (inbound # <<>> /\ cpc["c1"] = "idle") => ENABLED ConsumeInbound("c1")

\* C17: stop() changes only the running flag: the queues, the subscriber lists
\* and the adapter registry are as before, and what is queued can still be
\* consumed.
C17_StopOnlyFlag == [][StopLeavesBus]_vars /\ []StoppedStillConsumable

\* Stopped with messages on both queues, a subscriber and an adapter, and a
\* message consumed from each queue.
C17_Witness ==
    /\ ~running
    /\ pc["d1"] = "waiting"
    /\ inbound # <<>>
    /\ outbound # <<>>
    /\ consumedOut # <<>>
    /\ received["c1"] # <<>>
    /\ \E ch \in Channels : subs[ch] # <<>>
    /\ channels # {}

FlagSetOnlyByDispatch ==
    (~running /\ running') => \E d \in SingleLoop : Start(d)

FlagClearedOnlyByStop == (running /\ ~running') => Stop

ResumesOnlyByDispatch ==
    \A d \in SingleLoop :
        /\ (pc[d] \notin Active /\ pc'[d] \in Active) => Start(d)
        /\ (dispatched' # dispatched) => pc[d] \in Active

\* C18: the running flag is false after construction, becomes true only by a
\* call of dispatch_outbound() and false only by stop(); a loop that has
\* exited dispatches again only through a new call of dispatch_outbound().
C18_RunningFlag ==
    /\ ~running
    /\ [][FlagSetOnlyByDispatch /\ FlagClearedOnlyByStop /\ ResumesOnlyByDispatch]_vars

\* The loop returned after stop() and a message is waiting on the queue.
C18_Witness ==
    /\ pc["d1"] = "done"
    /\ ~running
    /\ outbound # <<>>
    /\ dispatched # <<>>

(* ------------------- claims on the queues' order and size ------------- *)

ConsumedIsPrefix ==
    /\ Len(consumedOut) <= Len(enqLog)
    /\ \A k \in 1..Len(consumedOut) : consumedOut[k] = enqLog[k]

ConsumeTakesHead ==
    (Len(consumedOut') > Len(consumedOut))
        => /\ consumedOut'[Len(consumedOut')] = Head(outbound)
           /\ outbound' = Tail(outbound)

\* C19: consume_outbound() returns the messages in the order they were put on
\* the outbound queue, whether by publish_outbound() or by the fallback of
\* send_direct().
C19_OutboundFifo == []ConsumedIsPrefix /\ [][ConsumeTakesHead]_vars

\* A published message and a fallback message were both consumed.
C19_Witness ==
    /\ Len(consumedOut) >= 2
    /\ \E k \in 1..Len(consumedOut) : consumedOut[k].id \in fallback
    /\ \E k \in 1..Len(consumedOut) : consumedOut[k].id \notin fallback

RECURSIVE SumOver(_, _)
SumOver(f, S) ==
    IF S = {} THEN 0
    ELSE LET x == CHOOSE y \in S : TRUE IN f[x] + SumOver(f, S \ {x})

ReturnedCount == SumOver([c \in Consumers |-> Len(received[c])], Consumers)

SizeIsPublishedMinusConsumed ==
    InboundSize = SumOver(pubCount, Producers) - ReturnedCount

PublishAddsOne ==
    \A p \in Producers :
        (pubCount'[p] = pubCount[p] + 1) =>
            Len(inbound') = InboundSize + 1

PublishNeverBlocks ==
    \A p \in Producers : pubCount[p] < MaxPub => ENABLED PublishInbound(p)

\* C20: publish_inbound() can always run, whatever the queue holds, and adds
\* exactly one message; inbound_size is the number of messages published minus
\* the number handed to consumers.
C20_InboundUnbounded ==
    /\ [](SizeIsPublishedMinusConsumed /\ PublishNeverBlocks)
    /\ [][PublishAddsOne]_vars

\* Three messages were published, one was consumed, two are queued.
C20_Witness ==
    /\ InboundSize = 2
    /\ ReturnedCount = 1

(* ------------------- claims on DiscordChannel.send -------------------- *)

\* C21: send() returns normally only when every chunk of the content was
\* posted and answered with a status below 400; a call made before the HTTP
\* client exists, or ended by an error status, by rate limiting or transport
\* failure on every attempt, or by cancellation, has raised.
C21_SendCompletesOrRaises ==
    \A k \in 1..MaxSends :
        LET r == sends[k] IN
        /\ r.pc = "returned" => (r.entered /\ r.n >= 1 /\ r.ok = r.n)
        /\ (r.pc # "idle" /\ ~r.entered) => r.pc = "raised"
        /\ (Finished(r) /\ r.ok < r.n) => r.pc = "raised"

\* The second chunk of a message was rate limited three times and send()
\* raised.
C21_Witness ==
    /\ sends[1].pc = "raised"
    /\ sends[1].n = 2
    /\ sends[1].ok = 1
    /\ sends[1].posts = 3
    /\ sends[1].last = "429"

\* C22, as stated: a payload is posted again only after a 429 response.
C22_RetryOnlyAfter429 ==
    \A k \in 1..MaxSends :
        sends[k].posts > 1 => sends[k].before \in {"429", "429x"}

\* C23: one payload is posted at most three times, and _send_payload returns
\* normally only after an attempt that was answered with a status below 400.
C23_AtMostThreePosts ==
    \A k \in 1..MaxSends :
        /\ sends[k].posts <= 3
        /\ sends[k].pc = "returned" => sends[k].last = "ok"
        /\ (sends[k].posts = 3 /\ sends[k].pc = "sleeping")
               => sends[k].last = "429"

\* The third attempt of a payload succeeded after a transport failure.
C23_Witness ==
    /\ sends[1].pc = "returned"
    /\ sends[1].posts = 3
    /\ sends[1].before = "exc"

SendEndStopsTyping ==
    \A k \in 1..MaxSends :
        (~Finished(sends[k]) /\ Finished(sends'[k]) /\ sends'[k].entered) =>
            LET c == sends'[k].chat IN
            /\ typing'[c] = 0
            /\ typing[c] # 0 => typing[c] \in cancelledTasks'
            /\ \A o \in Chats \ {c} : typing'[o] = typing[o]
            /\ cancelledTasks' \ cancelledTasks \subseteq {typing[c]}

\* C24: the step that ends a send() which found the HTTP client, by return or
\* by raise, leaves no typing task for the chat of the message, has cancelled
\* the one there was, and leaves the typing tasks of the other chats alone.
C24_SendStopsTyping == [][SendEndStopsTyping]_vars

\* A send() raised; its chat's typing task is cancelled and gone while the
\* other chat's typing task is still in the table.
C24_Witness ==
    \E k \in 1..MaxSends : \E o \in Chats :
        /\ sends[k].pc = "raised"
        /\ sends[k].entered
        /\ o # sends[k].chat
        /\ typing[sends[k].chat] = 0
        /\ typing[o] # 0
        /\ typing[o] \notin cancelledTasks
        /\ cancelledTasks # {}

(* ------------------- claims on the gateway's events ------------------- *)

\* The events the handler must drop, stated on the payload's fields.
MustDrop(e) ==
    e.bot \/ e.sender = "" \/ e.channel = "" \/ e.sender \notin Allowed

\* C25: an event of a bot, without sender or channel id, or of a sender that
\* is not allowed is not handed to the bus and starts no typing task; any
\* other event whose handler ran to its end was handed on once, with its
\* channel's typing task started; no event is handed on twice.
C25_EventFilter ==
    /\ (ev.id # 0 /\ MustDrop(ev)) => (evHanded = 0 /\ evTyping = 0 /\ evPc = "idle")
    /\ (ev.id # 0 /\ ~MustDrop(ev) /\ evPc = "idle" /\ ev.att # "cancelled")
           => (evHanded = 1 /\ evTyping # 0 /\ handed[Len(handed)] = ev.id)
    /\ (evPc = "downloading" \/ ev.att = "cancelled") => (evHanded = 0 /\ evTyping = 0)
    /\ \A id \in Range(handed) : Count(handed, id) = 1

\* The first event was handed on; the second, from a bot in
\* the same channel, was dropped.
C25_Witness ==
    /\ ev.id = 2
    /\ ev.bot
    /\ ev.sender = "u1"
    /\ ev.channel \in Chats
    /\ handed = <<1>>
    /\ typing[ev.channel] = 1

(* ------------------- claims on _split_message ------------------------- *)

\* C26: every chunk _split_message returns is at most max_len long, and a
\* content of at most max_len characters comes back as the one chunk.
C26_ChunksWithinMaxLen ==
    splitPc = "returned" =>
        /\ \A k \in 1..Len(chunks) : Len(chunks[k]) <= splitMax
        /\ Len(splitInput) <= splitMax => chunks = <<splitInput>>

\* A content longer than max_len came back in several chunks, one of them
\* cut at a space.
C26_Witness ==
    /\ splitPc = "returned"
    /\ Len(splitInput) > splitMax
    /\ Len(chunks) >= 2
    /\ \E k \in 1..Len(chunks) : Len(chunks[k]) = splitMax
    /\ \E k \in 1..Len(splitInput) : splitInput[k] = " "

(* ------------------- claims on CDPSession ----------------------------- *)

\* C27: get_or_create returns the existing instance, opening no connection,
\* exactly when one exists with a websocket and answers the ping; otherwise a
\* call that returns has closed the instance it found (if any), connected a
\* new session and made it the singleton.
C27_SingletonReuse ==
    /\ lastCall.kind = "reuse" =>
           /\ lastCall.had # 0 /\ lastCall.pong
           /\ lastCall.ret = lastCall.had
           /\ lastCall.opened = 0 /\ lastCall.closed = 0
    /\ lastCall.kind = "new" =>
           /\ ~(lastCall.had # 0 /\ lastCall.pong)
           /\ lastCall.ret # lastCall.had
           /\ lastCall.inst = lastCall.ret
           /\ lastCall.opened = 1
           /\ lastCall.had # 0 => (lastCall.closed = lastCall.had /\ ws[lastCall.had] = "none")
    /\ lastCall.kind = "raised" => ~(lastCall.had # 0 /\ lastCall.pong)
    /\ gpc = "connecting" => (goc.had # 0 => goc.closed = goc.had)

\* The third call found the singleton dead or silent, closed it and returned
\* a new session, which is the singleton now.
C27_Witness ==
    /\ lastCall.kind = "new"
    /\ lastCall.had # 0
    /\ lastCall.closed = lastCall.had
    /\ instance = lastCall.ret
    /\ gocCount = 3

IdsNeverReused ==
    \A a, b \in 1..Len(rawCalls) : a # b => rawCalls[a].id # rawCalls[b].id

OwnResponseOnly ==
    \A c \in 1..Len(rawCalls) :
        /\ rawCalls[c].state \in {"result", "error"} => rawCalls[c].got = rawCalls[c].id
        /\ rawCalls[c].state \notin {"result", "error"} => rawCalls[c].got = 0

ForeignResolvesNone ==
    \A c \in 1..Len(rawCalls) :
        (rawCalls'[c] # rawCalls[c]) =>
            \/ rawCalls'[c].state = "timeout"
            \/ /\ rawCalls[c].state = "waiting"
               /\ rawCalls'[c].got = rawCalls[c].id
               /\ rawCalls[c].id \in DOMAIN pending
               /\ rawCalls[c].id \notin DOMAIN pending'

\* C28: no two _raw_send calls of a session have the same id; a call that
\* completes with a response got the response carrying its own id; a message
\* whose id is not pending, or that has no id, changes no call.
C28_ResponsesMatchIds ==
    /\ [](IdsNeverReused /\ OwnResponseOnly)
    /\ [][ForeignResolvesNone]_vars

\* Three commands were in flight and the responses came back out of order.
C28_Witness ==
    /\ Len(rawCalls) = 3
    /\ rawCalls[3].state = "result"
    /\ rawCalls[2].state = "error"
    /\ rawCalls[1].state = "waiting"

(* ------------------- claims on maybe_compact -------------------------- *)

CountedTokens == EstimateTokens(cmIn, cmCounter)

BelowThreshold == CountedTokens < Threshold(cmWindow, cmRatio)

\* C29: maybe_compact returns its list unchanged with compacted = False, and
\* calls no provider, exactly when the estimate is below
\* int(context_window * threshold_ratio); from the threshold on, what it
\* returns is compacted = True with the leading system message (if any), one
\* summary message of the user and one acknowledgement of the assistant.
C29_CompactsFromThreshold ==
    /\ cmPc = "returned" =>
           /\ cmCompacted <=> ~BelowThreshold
           /\ ~cmCompacted => (cmOut = cmIn /\ cmCalls = 0)
           /\ cmCompacted =>
                  /\ cmCalls = 1
                  /\ Len(cmOut) = Len(SystemMsg(cmIn)) + 2
                  /\ SubSeq(cmOut, 1, Len(cmOut) - 2) = SystemMsg(cmIn)
                  /\ cmOut[Len(cmOut) - 1].role = "user"
                  /\ cmOut[Len(cmOut) - 1].text \in {"summary", "(empty summary)"}
                  /\ cmOut[Len(cmOut)] = AckMsg
    /\ cmPc \in {"summarizing", "raised"} => ~BelowThreshold
    /\ BelowThreshold => cmCalls = 0

\* A list that starts with a system message and counts exactly the threshold
\* was compacted.
C29_Witness ==
    /\ cmPc = "returned"
    /\ cmCompacted
    /\ CountedTokens = Threshold(cmWindow, cmRatio)
    /\ CountedTokens > 0
    /\ SystemMsg(cmIn) # <<>>
    /\ Len(cmOut) = 3

(* ------------------- claims on the order of dispatch ------------------ *)

\* Whenever a message leaves the queue, no callback is in progress: the loop
\* holds no message and sits in its bounded wait.
NoDequeueDuringCallback ==
    (dispatched' # dispatched) =>
        \A d \in SingleLoop :
            /\ pc[d] = "waiting"
            /\ cur[d] = NoMsg

EnqueuePosition(msg) == CHOOSE k \in 1..Len(enqLog) : enqLog[k] = msg

SubscriberSeesEnqueueOrder ==
    \A a, b \in 1..Len(delivered) :
        (a < b /\ delivered[a][2] = delivered[b][2]) =>
            EnqueuePosition(delivered[a][1]) < EnqueuePosition(delivered[b][1])

\* C30: with one dispatcher loop a message is dequeued only while no callback
\* of the message before it is in progress, and every subscriber is called
\* for the messages of its channel in the order they were put on the queue.
C30_OneMessageAtATime ==
    [][NoDequeueDuringCallback]_vars /\ []SubscriberSeesEnqueueOrder

\* One subscriber was called for two messages, the first of which it
\* answered with an exception.
C30_Witness ==
    \E a, b \in 1..Len(delivered) :
        /\ a < b
        /\ delivered[a][2] = delivered[b][2]
        /\ delivered[a] \in errors

(* ------------------- claims on stop() before the loop ----------------- *)

\* While the last stop() is one made before the loop started, the loop is in
\* its active positions with the flag set.
EarlyStopForgotten ==
    \A d \in SingleLoop : (stoppedIdle /\ pc[d] \in Active) => running

\* A dispatch_outbound() call that starts after that stop() sets the flag and
\* enters the loop.
EarlyStopOverwritten ==
    \A d \in SingleLoop :
        (stoppedIdle /\ ~running /\ pc[d] \in NotInLoop /\ pc'[d] # pc[d])
            => (running' /\ pc'[d] \in Active)

\* Such a loop leaves its active positions by cancellation only, until
\* another stop() is made.
EarlyStopDoesNotEndLoop ==
    \A d \in SingleLoop :
        (stoppedIdle /\ pc[d] \in Active /\ stoppedIdle')
            => pc'[d] \in Active \cup {"cancelled"}

\* C31: a stop() made before dispatch_outbound() runs its first statement is
\* not remembered: the call sets the flag on entry and the loop goes on until
\* a later stop() or a cancellation.
C31_EarlyStopNotRemembered ==
    /\ []EarlyStopForgotten
    /\ [][EarlyStopOverwritten /\ EarlyStopDoesNotEndLoop]_vars

\* stop() was called with no loop running, dispatch_outbound() started after
\* it, and the loop is now in a subscriber's callback for a message.
C31_Witness ==
    /\ stoppedIdle
    /\ running
    /\ pc["d1"] = "incallback"
    /\ cur["d1"] # NoMsg

(* --------------- claims on subscribing during a fan-out --------------- *)

\* While a message is fanned out, the callbacks up to the position of the for
\* loop, and no other, have been invoked for it.
FanoutFollowsLiveList ==
    \A d \in SingleLoop :
        pc[d] = "incallback" =>
            \A k \in 1..Len(subs[cur[d].channel]) :
                (k <= idx[d]) <=>
                    (<<cur[d], subs[cur[d].channel][k]>> \in Range(delivered))

\* When the fan-out of a message ends, every subscriber registered during
\* it has been called for the message, once.
LateSubscriberCalled ==
    \A d \in SingleLoop :
        (pc[d] = "incallback" /\ pc'[d] \notin {"incallback", "cancelled"}) =>
            \A late \in lateSubs :
                late[1] = cur[d].id =>
                    Count(delivered', <<cur[d], late[2]>>) = 1

\* C32: a subscriber registered for channel C while the dispatcher is in an
\* earlier subscriber's callback for a message of C is invoked for that
\* message too, once, before the fan-out of the message is over.
C32_LateSubscriberIsCalled ==
    []FanoutFollowsLiveList /\ [][LateSubscriberCalled]_vars

\* The dispatcher is in the callback of a subscriber that was registered
\* during the fan-out of the message it is called for, after the callback of
\* an earlier subscriber.
C32_Witness ==
    /\ pc["d1"] = "incallback"
    /\ idx["d1"] = 2
    /\ <<cur["d1"].id, subs[cur["d1"].channel][2]>> \in lateSubs
    /\ <<cur["d1"], subs[cur["d1"].channel][1]>> \in Range(delivered)
    /\ <<cur["d1"], subs[cur["d1"].channel][2]>> \in Range(delivered)

(* ------------------- claims on DiscordChannel.stop -------------------- *)

\* After stop(), start() makes no websockets.connect call.
NoConnectAfterStop == ~lateConnect

\* After stop(), start() returns.
StopEndsStart == stopSeen ~> (startPc = "returned")

\* C33: once stop() has been called, start() opens no further gateway
\* connection and eventually returns, wherever in start() the stop arrives:
\* while connecting, while reading the gateway, or in the sleep before a
\* reconnect.
C33_StopEndsStart == []NoConnectAfterStop /\ StopEndsStart

(* ------------------- claims on the typing tasks ----------------------- *)

\* The typing tasks that were created and never cancelled.
LiveTyping == (1..nextTask) \ cancelledTasks

\* Every live task is in the table, under one chat only.
LiveTypingIsRecorded ==
    /\ \A t \in LiveTyping : Cardinality({c \in Chats : typing[c] = t}) = 1
    /\ Cardinality(LiveTyping) <= Cardinality(Chats)

\* A step that creates a typing task for a chat cancels the task the chat had;
\* a step of stop() leaves no live task and no entry.
TypingReplacedOrCleared ==
    /\ nextTask' # nextTask =>
           \A c \in Chats :
               (typing'[c] # typing[c] /\ typing[c] # 0)
                   => typing[c] \in cancelledTasks'
    /\ (dRunning /\ ~dRunning') =>
           (LiveTyping' = {} /\ \A c \in Chats : typing'[c] = 0)

\* C34: at most one typing task per chat is live, and every live typing task
\* is the one in the table under its chat; _start_typing cancels the chat's
\* earlier task and stop() cancels and removes them all.
C34_OneTypingTaskPerChat ==
    []LiveTypingIsRecorded /\ [][TypingReplacedOrCleared]_vars

\* A second event of the same chat replaced the task of the first: the first
\* is cancelled and the second is the chat's entry.
C34_Witness ==
    /\ evCount = 2
    /\ handed = <<1, 2>>
    /\ typing[ev.channel] = 2
    /\ cancelledTasks = {1}
    /\ LiveTyping = {2}

(* ------------------- claims on concurrent get_or_create --------------- *)

\* No get_or_create() call is in progress and no _connect() has raised.
AllCallsReturned == InFlight = {} /\ \A c \in Callers : ~co[c].failed

\* The connected sessions.
Connected == {k \in 1..nSessions : ws[k] = "open"}

\* C35: concurrent get_or_create() calls leave no two connected sessions:
\* every session that was connected is the recorded singleton or was closed.
C35_OneConnectedSession ==
    AllCallsReturned => (Connected \subseteq {instance})

(* ------------------- claims on CDPSession._pending -------------------- *)

\* C36: every entry a _raw_send call put into _pending is gone once the call
\* has completed, with a result, a CDP error, the timeout or a failed send: the
\* ids in _pending are those of the calls still waiting.
C36_PendingOnlyInFlight ==
    \A id \in DOMAIN pending : rawCalls[pending[id]].state = "waiting"

====
